---- MODULE Spec2Model ----
(***************************************************************************)
(* Model of the relay solver library (ClipFinance/relay-lib).              *)
(*                                                                         *)
(* Part I  : the persisted intent state machine, dbconfig/intents.go.      *)
(*           The table is PostgreSQL's; every function of intents.go is    *)
(*           one SQL statement (autocommit) except GetCreatedIntents,      *)
(*           which is a RepeatableRead transaction and is modelled in the  *)
(*           steps in which other sessions can interleave with it.         *)
(* Part II : the EVM confirmation waiter, chains/evm/wait_transaction.go.  *)
(* Part III: the Solana confirmation waiter,                               *)
(*           chains/solana/wait_transaction.go.                            *)
(* Part IV : the connection monitor, connectionmonitor/monitor.go.         *)
(* Part V  : the EVM adapter's Reconnect and the event handler's           *)
(*           subscriptions, chains/evm and chains/evm/handler.             *)
(* Part VI : the chain registry, chainmanager/registry.go.                 *)
(* Part VII: HTTP polling of the event handler, chains/evm/handler.        *)
(* Part VIII: GetPendingTransactionsByChain, dbconfig/intents.go.          *)
(* Part IX : the transactions built by the stuck-transaction handling,     *)
(*            chains/evm/wait_transaction.go.                              *)
(* Part X  : the Chain facade, chainmanager/chain.go.                      *)
(***************************************************************************)
EXTENDS Integers, Sequences, FiniteSets, TLC

(***************************************************************************)
(* Bounds of the model.                                                    *)
(***************************************************************************)
MaxTime == 1        \* the database clock runs over 0..MaxTime
MaxRows == 2        \* rows the intent table may hold
MaxQuorum == 2      \* observations of one (quote_id, block_hash) pair
MaxRetries == 1     \* retry resets of one row
QueryLimit == 1     \* LIMIT of the CTE of GetCreatedIntents, scaled from 100

\* ExpirationTime, the fulfilment window, in ticks of the database clock.
ExpirationTime == 1

MaxBlock == 5       \* the chain grows to block MaxBlock
MaxClock == 47      \* the wall clock runs over 0..MaxClock seconds
WaitNBlocks == 1    \* config.WaitNBlocks, the confirmation depth

\* The steps in which the wall clock is observed to advance, in seconds.
ClockSteps == {15, 16}

\* waitTimeout = 30 * time.Second
waitTimeout == 30

\* MaxValidSlots = 160
MaxValidSlots == 160

\* The modulus of slot arithmetic: uint64 in the code, scaled.
SlotModulus == 1024

MaxCalls == 4       \* calls of Start and Stop on one monitor
MaxTicks == 2       \* ticks one monitoring goroutine handles

\* maxReconnectAttempts = 3
maxReconnectAttempts == 3

MaxChans == 4       \* event channels made for one handler
MaxReconnects == 2  \* calls of the adapter's Reconnect

MaxRegistryCalls == 4  \* calls of Add, Get and Remove on one registry
MaxBuilds == 2         \* chains the factory builds

MaxPollBlock == 4      \* the polled chain grows to block MaxPollBlock
maxBlockRange == 2     \* maxBlockRange = uint64(1000), scaled

MaxPendingCalls == 1   \* calls of GetPendingTransactionsByChain

\* maxReconnectAttempts = 3 of the handler package, the attempts of one
\* setupSubscriptions call
handlerReconnectAttempts == 3

(***************************************************************************)
(* Value domains.                                                          *)
(***************************************************************************)
NULL == {}
Some(v) == {v}

StatusCreated == "CREATED"
StatusPending == "PENDING"
StatusDone == "DONE"
StatusFailed == "FAILED"
Statuses == {StatusCreated, StatusPending, StatusDone, StatusFailed}

Completed == "COMPLETED"
Expired == "EXPIRED"

Quotes == {"0xQ1", "0xQ2"}
Hashes == {"0xB1", "0xB2"}
Keys == Quotes \X Hashes
TxHashes == {"0xH1", "0xH2"}
Nonces == {7, 8}
FromTxs == {"0xF1", "0xF2"}
Solvers == {"s1", "s2"}

VARIABLES
    intent,     \* the intent table: (quote_id, block_hash) -> committed row
    now,        \* the database clock, NOW() and time.Now()
    pc,         \* per solver: position inside GetCreatedIntents
    exp,        \* per solver: expirationTime computed at intents.go:155
    cand,       \* per solver: rows of the statement's snapshot that match the WHERE
    stale,      \* per solver: snapshot rows changed by a later commit
    held,       \* per solver: rows locked FOR UPDATE, updated and scanned
    handed,     \* per row: how many times a GetCreatedIntents call returned it
    sched,      \* the scheduler working through one intent: its step and arguments
    w,          \* one WaitTransactionConfirmation call: its position and locals
    watched,    \* tx.Hash, the hash the call waits for
    clock,      \* wall clock, in seconds
    head,       \* number of the chain's latest block
    mined,      \* the transaction of the watched nonce that a block included
    sent,       \* transactions submitted by the stuck-transaction handling
    ctxDone,    \* the call's context is cancelled
    subErr,     \* the header subscription reported an error
    sol,        \* one Solana WaitTransactionConfirmation call: position and locals
    solChain,   \* the Solana cluster's view of the transaction, and the context
    mon,        \* the ConnectionMonitor: its fields, its context, what happened to it
    monCalls,   \* per caller: the Start or Stop call in progress
    monLoops,   \* the monitorConnection goroutines, in the order they were spawned
    chain,      \* the EVM adapter: its client, its handler, the clients closed so far
    eh,         \* the EventHandler: its client, its context, its two subscriptions
    evChans,    \* per event channel made, the number of close calls on it
    thr,        \* per goroutine acting on the adapter: its position and locals
    registry,   \* the blockchainRegistry: its map of chains
    regCalls,   \* per caller: the Add, Get or Remove call in progress
    objs,       \* the chains the factory built: the id each was built for, its listeners
    poll,       \* the polling goroutine: its position, h.lastProcessedBlock, h.ctx
    pollChain,  \* the polled chain: its head and its logs
    eventChan,  \* h.eventChan: what its consumer received, whether it still receives
    pendingTxs, \* the last result of GetPendingTransactionsByChain and the number of calls
    rbf,        \* the transactions built by the stuck-transaction handling
    facade      \* the Chain facade, its read locks and the calls in it

dbVars == <<intent, now, pc, exp, cand, stale, held, handed>>
evmVars == <<w, watched, clock, head, mined, sent, ctxDone, subErr>>
solVars == <<sol, solChain>>
monVars == <<mon, monCalls, monLoops>>
adapterVars == <<chain, eh, evChans, thr>>
registryVars == <<registry, regCalls, objs>>
pollVars == <<poll, pollChain, eventChan>>
pendingVars == <<pendingTxs>>
replacementVars == <<rbf>>
facadeVars == <<facade>>
vars == <<intent, now, pc, exp, cand, stale, held, handed, sched,
          w, watched, clock, head, mined, sent, ctxDone, subErr, sol, solChain,
          mon, monCalls, monLoops, chain, eh, evChans, thr,
          registry, regCalls, objs,
          poll, pollChain, eventChan,
          pendingTxs,
          rbf,
          facade>>

(***************************************************************************)
(* Rows.                                                                   *)
(***************************************************************************)
QuoteOf(k) == k[1]
RowsOf(q) == {k \in DOMAIN intent : QuoteOf(k) = q}

\* The row that the VALUES list of InsertIntent creates: to_tx, to_nonce and
\* retries are not among the inserted columns and take the column defaults.
NewRow(i) ==
    [ status           |-> i.status,
      sub_status       |-> i.sub_status,
      to_tx            |-> NULL,
      to_tx_set_at     |-> i.to_tx_set_at,
      to_nonce         |-> NULL,
      to_tx_mined_at   |-> i.to_tx_mined_at,
      retries          |-> 0,
      quorum           |-> 1,
      from_tx_mined_at |-> i.from_tx_mined_at,
      from_tx          |-> i.from_tx ]

\* An upsert that also takes the data of the new observation.
ConflictRowOverwrite(r, i) ==
    [r EXCEPT !.quorum = r.quorum + 1, !.from_tx = i.from_tx]

\* ON CONFLICT (quote_id, block_hash) DO UPDATE SET quorum = intent.quorum + 1
ConflictRow(r, i) == [r EXCEPT !.quorum = r.quorum + 1]

\* A retry reset that leaves the destination nonce in place.
CreatedRowKeepNonce(r) ==
    [r EXCEPT !.status = StatusCreated,
              !.to_tx = NULL,
              !.to_tx_set_at = NULL,
              !.retries = r.retries + 1]

\* A retry reset that leaves the destination transaction in place.
CreatedRowKeepTx(r) ==
    [r EXCEPT !.status = StatusCreated,
              !.to_nonce = NULL,
              !.retries = r.retries + 1]

\* SET clause of SetCreatedIntentStatus
CreatedRow(r) ==
    [r EXCEPT !.status = StatusCreated,
              !.to_tx = NULL,
              !.to_tx_set_at = NULL,
              !.to_nonce = NULL,
              !.retries = r.retries + 1]

\* SET clause of SetPendingIntentStatus
PendingRow(r, toTx, nonce, t) ==
    [r EXCEPT !.to_tx = Some(toTx),
              !.to_tx_set_at = Some(t),
              !.status = StatusPending,
              !.to_nonce = Some(nonce)]

\* A completion that records no confirmation time and no sub-status.
DoneRowStatusOnly(r, nonce, t) ==
    [r EXCEPT !.status = StatusDone, !.to_nonce = Some(nonce)]

\* SET clause of SetDoneIntentStatus
DoneRow(r, nonce, t) ==
    [r EXCEPT !.status = StatusDone,
              !.sub_status = Some(Completed),
              !.to_nonce = Some(nonce),
              !.to_tx_mined_at = Some(t)]

\* SET clause of SetFailedIntentStatus
FailedRow(r, subStatus) ==
    [r EXCEPT !.status = StatusFailed,
              !.sub_status = Some(subStatus)]

\* SET clause of the UPDATE of GetCreatedIntents
TakenRow(r) == [r EXCEPT !.status = StatusPending]

\* A WHERE clause without the expiration test.
SelectableExpired(r, expirationTime) ==
    /\ r.status = StatusCreated
    /\ r.quorum >= 1

\* WHERE clause of the CTE of GetCreatedIntents
Selectable(r, expirationTime) ==
    /\ r.status = StatusCreated
    /\ r.quorum >= 1
    /\ r.from_tx_mined_at > expirationTime

(***************************************************************************)
(* Row locks. A row is locked from the moment a GetCreatedIntents          *)
(* transaction selected it FOR UPDATE until that transaction ends.         *)
(***************************************************************************)
LockedBy(k) == {s \in Solvers : pc[s] = "locked" /\ k \in held[s]}
Locked(k) == LockedBy(k) # {}

\* A select that ignores the row locks of other transactions.
LockableAlways(s, k) == TRUE

\* FOR UPDATE SKIP LOCKED: solver s may take the row lock of k
Lockable(s, k) == LockedBy(k) \subseteq {s}

\* A commit that changed the rows ks makes them newer than the snapshot of
\* every statement that is still scanning.
MarkStale(ks) ==
    [s \in Solvers |-> IF pc[s] = "scanning" THEN stale[s] \cup (ks \cap cand[s])
                       ELSE stale[s]]

(***************************************************************************)
(* The single-statement operations.                                        *)
(***************************************************************************)
\* UPDATE intent SET ... WHERE quote_id = q, as one autocommit statement. It
\* waits while a matching row is locked; with no matching row it changes
\* nothing (rowsAffected = 0, the function returns an error).
UpdateWhereQuote(q, set) ==
    /\ \A k \in RowsOf(q) : ~Locked(k)
    /\ intent' = [k \in DOMAIN intent |->
                    IF QuoteOf(k) = q THEN set[k] ELSE intent[k]]
    /\ stale' = MarkStale(RowsOf(q))
    /\ UNCHANGED <<now, pc, exp, cand, held, handed>>

InsertIntent(i) ==
    LET k == <<i.quote_id, i.block_hash>> IN
    /\ IF k \in DOMAIN intent
       THEN /\ ~Locked(k)
            /\ intent' = [intent EXCEPT ![k] = ConflictRow(intent[k], i)]
            /\ stale' = MarkStale({k})
       ELSE /\ intent' = [x \in DOMAIN intent \cup {k} |->
                            IF x = k THEN NewRow(i) ELSE intent[x]]
            /\ stale' = stale
    /\ UNCHANGED <<now, pc, exp, cand, held, handed>>

SetCreatedIntentStatus(q) ==
    UpdateWhereQuote(q, [k \in RowsOf(q) |-> CreatedRow(intent[k])])

SetPendingIntentStatus(q, toTx, nonce) ==
    UpdateWhereQuote(q, [k \in RowsOf(q) |-> PendingRow(intent[k], toTx, nonce, now)])

SetDoneIntentStatus(q, nonce) ==
    UpdateWhereQuote(q, [k \in RowsOf(q) |-> DoneRow(intent[k], nonce, now)])

SetFailedIntentStatus(q, subStatus) ==
    UpdateWhereQuote(q, [k \in RowsOf(q) |-> FailedRow(intent[k], subStatus)])

(***************************************************************************)
(* GetCreatedIntents, a RepeatableRead transaction.                        *)
(***************************************************************************)
\* db.BeginTx
BeginTx(s) ==
    /\ pc[s] = "idle"
    /\ pc' = [pc EXCEPT ![s] = "begun"]
    /\ UNCHANGED <<intent, now, exp, cand, stale, held, handed>>

\* expirationTime := time.Now().Add(-ExpirationTime); the statement starts and
\* takes the transaction's snapshot: the committed rows matching the WHERE.
StartQuery(s) ==
    /\ pc[s] = "begun"
    /\ pc' = [pc EXCEPT ![s] = "scanning"]
    /\ exp' = [exp EXCEPT ![s] = now - ExpirationTime]
    /\ cand' = [cand EXCEPT ![s] =
                  {k \in DOMAIN intent : Selectable(intent[k], now - ExpirationTime)}]
    /\ stale' = [stale EXCEPT ![s] = {}]
    /\ UNCHANGED <<intent, now, held, handed>>

\* The sets of rows the scan may lock: it skips locked rows and stops at the
\* LIMIT; without ORDER BY the order of the scan is the server's choice.
Picks(s) ==
    LET free == {k \in cand[s] : Lockable(s, k)}
        n == IF Cardinality(free) < QueryLimit THEN Cardinality(free) ELSE QueryLimit
    IN {S \in SUBSET free : Cardinality(S) = n}

\* The statement locks the picked rows and updates them inside the
\* transaction; rows.Next scans the RETURNING rows into intents.
LockRows(s) ==
    /\ pc[s] = "scanning"
    /\ \E S \in Picks(s) :
          /\ S \cap stale[s] = {}
          /\ held' = [held EXCEPT ![s] = S]
    /\ pc' = [pc EXCEPT ![s] = "locked"]
    /\ cand' = [cand EXCEPT ![s] = {}]
    /\ stale' = [stale EXCEPT ![s] = {}]
    /\ UNCHANGED <<intent, now, exp, handed>>

\* A picked row was changed by a commit after the snapshot: under
\* RepeatableRead the statement fails (could not serialize access), the
\* function returns the error and the deferred Rollback ends the transaction.
SerializationFailure(s) ==
    /\ pc[s] = "scanning"
    /\ \E S \in Picks(s) : S \cap stale[s] # {}
    /\ pc' = [pc EXCEPT ![s] = "idle"]
    /\ cand' = [cand EXCEPT ![s] = {}]
    /\ stale' = [stale EXCEPT ![s] = {}]
    /\ exp' = [exp EXCEPT ![s] = 0]
    /\ UNCHANGED <<intent, now, held, handed>>

\* tx.Commit succeeds: the update becomes visible, the locks are released and
\* the function returns the scanned intents.
Commit(s) ==
    /\ pc[s] = "locked"
    /\ intent' = [k \in DOMAIN intent |->
                    IF k \in held[s] THEN TakenRow(intent[k]) ELSE intent[k]]
    /\ handed' = [k \in Keys |-> IF k \in held[s] THEN handed[k] + 1 ELSE handed[k]]
    /\ pc' = [pc EXCEPT ![s] = "idle"]
    /\ held' = [held EXCEPT ![s] = {}]
    /\ exp' = [exp EXCEPT ![s] = 0]
    /\ stale' = MarkStale(held[s])
    /\ UNCHANGED <<now, cand>>

\* An error after BeginTx (query, scan, commit or a cancelled context): the
\* function returns (nil, err) and the deferred tx.Rollback undoes the update.
Rollback(s) ==
    /\ pc[s] \in {"begun", "locked"}
    /\ pc' = [pc EXCEPT ![s] = "idle"]
    /\ held' = [held EXCEPT ![s] = {}]
    /\ exp' = [exp EXCEPT ![s] = 0]
    /\ UNCHANGED <<intent, now, cand, stale, handed>>

\* Time passes.
Tick ==
    /\ now' = now + 1
    /\ UNCHANGED <<intent, pc, exp, cand, stale, held, handed>>

(***************************************************************************)
(* Specification of the persistence layer.                                 *)
(***************************************************************************)
\* The intents the ingest path hands to InsertIntent for the rows KS: built
\* from a source event, they carry no destination-side fields.
NewIntents(KS, FS) ==
    { [ quote_id |-> k[1], block_hash |-> k[2], status |-> StatusCreated,
        sub_status |-> NULL, to_tx_set_at |-> NULL, to_tx_mined_at |-> NULL,
        from_tx_mined_at |-> t, from_tx |-> f ] : k \in KS, t \in 0..now, f \in FS }

\* The guards that keep the table and its counters within the bounds.
RoomFor(i) ==
    LET k == <<i.quote_id, i.block_hash>> IN
    IF k \in DOMAIN intent THEN intent[k].quorum < MaxQuorum
    ELSE Cardinality(DOMAIN intent) < MaxRows

RetriesLeft(q) == \A k \in RowsOf(q) : intent[k].retries < MaxRetries

InitIntents ==
    /\ intent = <<>>
    /\ now = 0
    /\ pc = [s \in Solvers |-> "idle"]
    /\ exp = [s \in Solvers |-> 0]
    /\ cand = [s \in Solvers |-> {}]
    /\ stale = [s \in Solvers |-> {}]
    /\ held = [s \in Solvers |-> {}]
    /\ handed = [k \in Keys |-> 0]
    /\ sched = [step |-> "observe", key |-> NULL, to_tx |-> NULL, nonce |-> NULL]

\* The ingest path observes the rows KS with source transactions FS.
Ingest(KS, FS) == \E i \in NewIntents(KS, FS) : RoomFor(i) /\ InsertIntent(i)

\* The scheduler's retry reset of the quotes QS.
Retry(QS) == \E q \in QS : RetriesLeft(q) /\ SetCreatedIntentStatus(q)

\* The scheduler settles the quotes QS with transaction hashes HS, nonces NS.
Settle(QS, HS, NS) ==
    \/ \E q \in QS, h \in HS, n \in NS : SetPendingIntentStatus(q, h, n)
    \/ \E q \in QS, n \in NS : SetDoneIntentStatus(q, n)
    \/ \E q \in QS : SetFailedIntentStatus(q, Expired)

\* The solvers SS call GetCreatedIntents.
Fetch(SS) ==
    \/ \E s \in SS : BeginTx(s)
    \/ \E s \in SS : StartQuery(s)
    \/ \E s \in SS : LockRows(s)
    \/ \E s \in SS : SerializationFailure(s)
    \/ \E s \in SS : Commit(s)
    \/ \E s \in SS : Rollback(s)

Clock == now < MaxTime /\ Tick

(***************************************************************************)
(* Part II. The EVM confirmation waiter, chains/evm/wait_transaction.go.   *)
(* One call of WaitTransactionConfirmation is modelled between its RPC     *)
(* calls and channel receives, where the chain, the clock, the context and *)
(* the subscription can change.                                            *)
(***************************************************************************)
The(S) == CHOOSE x \in S : TRUE

\* strings.HasPrefix on an RPC URL, kept as <<scheme prefix, rest>>
HasPrefix(url, prefix) == url[1] = prefix

WebSocketMode == "WebSocket"
HTTPPollingMode == "HTTP"

GetSubscriptionMode(rpcURL) ==
    IF HasPrefix(rpcURL, "wss://") \/ HasPrefix(rpcURL, "ws://")
    THEN WebSocketMode ELSE HTTPPollingMode

TxFailed == "TxFailed"
TxDone == "TxDone"
TxNeedsRetry == "TxNeedsRetry"

\* The pair (status, error) a call returns; before it returns, NoResult.
Result(status, err) == [status |-> status, err |-> err]
NoResult == [status |-> "none", err |-> NULL]

\* Hashes: 0 is the transaction the call was given, i the i-th transaction
\* the stuck-transaction handling submitted.
SentHashes == 0..Len(sent)

\* The answer of TransactionReceipt(hash): the receipt, or NULL for NotFound.
Receipt(hash) == IF mined # NULL /\ The(mined).hash = hash THEN mined ELSE NULL

\* The answers TransactionByHash(hash) can give: an error (which includes a
\* transaction the node no longer knows), pending, or no longer pending.
\* Every RPC of the call is made with the call's context: once the context
\* is cancelled the RPC fails with the context's error.
Lookups(hash) ==
    {"err"} \cup (IF ctxDone THEN {}
                  ELSE IF mined = NULL THEN {"pending"}
                  ELSE IF The(mined).hash = hash THEN {"mined"} ELSE {})

RpcAnswers == IF ctxDone THEN {"err"} ELSE {"ok", "err"}

\* ctx.Err() of the cancelled context
ContextCanceled == "context canceled"

\* The error of an RPC that failed.
RpcError == IF ctxDone THEN ContextCanceled ELSE "rpc error"

\* errors.Wrap(err, message)
Wrap(err, message) == message \o ": " \o err

\* The block number the call compares with: the last header's number on the
\* WebSocket path, the last BlockNumber answer on the HTTP path.
CurrentBlock(x) == IF x.mode = WebSocketMode THEN x.hdr ELSE x.cur

Return(x, status, err) == [x EXCEPT !.pc = "returned", !.res = Result(status, err)]

\* A nil *ethtypes.Transaction is dereferenced: the goroutine panics.
Panic(x) == [x EXCEPT !.pc = "panicked"]

\* continue: back to the select of the loop.
Continue(x) == [x EXCEPT !.pc = "loop", !.rcpt = NULL]

\* WaitTransactionConfirmation up to the call of the WS or HTTP waiter.
Call ==
    /\ w.pc = "start"
    /\ \E client \in {"nil", "set"}, answer \in RpcAnswers,
          rpcURL \in {<<"wss://", "node">>, <<"https://", "node">>} :
          w' = IF client = "nil"
                 THEN Return(w, TxNeedsRetry, Some("client not initialized"))
               ELSE IF answer = "err"
                 THEN Return(w, TxNeedsRetry, Some(Wrap(RpcError, "failed to get current block number")))
               ELSE [w EXCEPT !.mode = GetSubscriptionMode(rpcURL),
                              !.startTime = clock, !.startBlock = head,
                              !.lastTick = clock,
                              !.pc = IF GetSubscriptionMode(rpcURL) = WebSocketMode
                                     THEN "subscribe" ELSE "loop"]
    /\ UNCHANGED <<watched, clock, head, mined, sent, ctxDone, subErr>>

\* client.SubscribeNewHead
Subscribe ==
    /\ w.pc = "subscribe"
    /\ \E answer \in RpcAnswers :
          w' = IF answer = "err"
               THEN Return(w, TxNeedsRetry, Some(Wrap(RpcError, "failed to subscribe to new headers")))
               ELSE [w EXCEPT !.pc = "loop", !.hdr = head]
    /\ UNCHANGED <<watched, clock, head, mined, sent, ctxDone, subErr>>

\* case <-ctx.Done()
ContextDone ==
    /\ w.pc = "loop"
    /\ ctxDone
    /\ w' = Return(w, TxFailed, Some(ContextCanceled))
    /\ UNCHANGED <<watched, clock, head, mined, sent, ctxDone, subErr>>

\* case err := <-sub.Err()
SubscriptionError ==
    /\ w.pc = "loop"
    /\ w.mode = WebSocketMode
    /\ subErr
    /\ w' = Return(w, TxNeedsRetry, Some(Wrap("connection lost", "subscription error")))
    /\ UNCHANGED <<watched, clock, head, mined, sent, ctxDone, subErr>>

\* The stuck check: time.Since(startTime) > waitTimeout
TimedOut(x) == clock - x.startTime > waitTimeout

\* A stuck check that does not look at the blocks.
BlocksPassedAlways(x, currentBlock) == TRUE

\* The stuck check: currentBlock > startBlock+2
BlocksPassed(x, currentBlock) == currentBlock > x.startBlock + 2

\* case header := <-handler.headerChan: the subscription delivers the
\* headers of the blocks after the subscription, in order.
NewHeader ==
    /\ w.pc = "loop"
    /\ w.mode = WebSocketMode
    /\ w.hdr < head
    /\ w' = [w EXCEPT !.hdr = w.hdr + 1,
                      !.pc = IF TimedOut(w) /\ BlocksPassed(w, w.hdr + 1) THEN "replace" ELSE "receipt"]
    /\ UNCHANGED <<watched, clock, head, mined, sent, ctxDone, subErr>>

\* case <-ticker.C: the ticker fires once a second.
TickerFired ==
    /\ w.pc = "loop"
    /\ w.mode = HTTPPollingMode
    /\ clock > w.lastTick
    /\ w' = [w EXCEPT !.lastTick = clock,
                      !.pc = IF TimedOut(w) THEN "blocknumber" ELSE "receipt"]
    /\ UNCHANGED <<watched, clock, head, mined, sent, ctxDone, subErr>>

\* HTTP path, timed out: client.BlockNumber before the stuck check.
StuckBlockNumber ==
    /\ w.pc = "blocknumber"
    /\ \E answer \in RpcAnswers :
          w' = IF answer = "err"
               THEN Return(w, TxFailed, Some(Wrap(RpcError, "failed to get current block number")))
               ELSE [w EXCEPT !.cur = head,
                              !.pc = IF BlocksPassed(w, head) THEN "replace" ELSE "receipt"]
    /\ UNCHANGED <<watched, clock, head, mined, sent, ctxDone, subErr>>

\* signAndSendTransaction succeeded for a transaction of the given kind that
\* takes the place of the watched one.
Submitted(kind) == Append(sent, [kind |-> kind, of |-> watched])

\* handleStuckTransaction got the replacement: tx.Hash is the new hash; the
\* waiter resets startTime and startBlock and continues.
Replaced ==
    /\ sent' = Submitted("replace")
    /\ watched' = Len(sent) + 1
    /\ w' = [Continue(w) EXCEPT !.startTime = clock, !.startBlock = CurrentBlock(w),
                                !.notFound = 0]

\* replaceTransaction, called by handleStuckTransaction. An error sends
\* handleStuckTransaction to cancelTransaction; (nil, nil) for a transaction
\* that is no longer pending makes it dereference newTx.
ReplaceTransaction ==
    /\ w.pc = "replace"
    /\ \E lookup \in Lookups(watched), gasPrice \in RpcAnswers,
          profitable \in BOOLEAN, send \in RpcAnswers :
          IF lookup = "err" \/ (lookup = "pending" /\ gasPrice = "err")
            THEN w' = [w EXCEPT !.pc = "cancel"] /\ UNCHANGED <<watched, sent>>
          ELSE IF lookup = "mined"
            THEN w' = Panic(w) /\ UNCHANGED <<watched, sent>>
          ELSE IF ~profitable
            THEN w' = [w EXCEPT !.pc = "cancel_unprofitable"] /\ UNCHANGED <<watched, sent>>
          ELSE IF send = "err"
            THEN w' = [w EXCEPT !.pc = "cancel"] /\ UNCHANGED <<watched, sent>>
          ELSE Replaced
    /\ UNCHANGED <<clock, head, mined, ctxDone, subErr>>

\* replaceTransaction found the replacement unprofitable and calls
\* cancelTransaction. A cancel that was sent makes replaceTransaction return
\* (nil, nil); a cancel that failed lets it go on to send the replacement.
CancelUnprofitable ==
    /\ w.pc = "cancel_unprofitable"
    /\ \E lookup \in Lookups(watched), sendCancel \in RpcAnswers, send \in RpcAnswers :
          IF lookup = "mined"
            THEN w' = Panic(w) /\ UNCHANGED <<watched, sent>>
          ELSE IF lookup = "pending" /\ sendCancel = "ok"
            THEN w' = Panic(w) /\ sent' = Submitted("cancel") /\ UNCHANGED watched
          ELSE IF send = "err"
            THEN w' = [w EXCEPT !.pc = "cancel"] /\ UNCHANGED <<watched, sent>>
          ELSE Replaced
    /\ UNCHANGED <<clock, head, mined, ctxDone, subErr>>

\* cancelTransaction, called by handleStuckTransaction after an error of
\* replaceTransaction.
CancelTransaction ==
    /\ w.pc = "cancel"
    /\ \E lookup \in Lookups(watched), send \in RpcAnswers :
          IF lookup = "mined"
            THEN w' = Panic(w) /\ UNCHANGED sent
          ELSE IF lookup = "pending" /\ send = "ok"
            THEN /\ w' = Return(w, TxFailed, Some("transaction cancelled due to timeout"))
                 /\ sent' = Submitted("cancel")
          ELSE w' = Return(w, TxFailed, Some("failed to cancel stuck transaction"))
                 /\ UNCHANGED sent
    /\ UNCHANGED <<watched, clock, head, mined, ctxDone, subErr>>

\* A confirmation check that does not wait for WaitNBlocks.
ConfirmAtOnce(x, receipt, currentBlock) ==
    IF receipt.successful THEN Return(x, TxDone, NULL) ELSE Return(x, TxFailed, NULL)

\* The confirmation check on a receipt, against the block number seen.
Confirm(x, receipt, currentBlock) ==
    IF currentBlock < receipt.blockNumber + WaitNBlocks THEN Continue(x)
    ELSE IF receipt.successful THEN Return(x, TxDone, NULL)
    ELSE Return(x, TxFailed, NULL)

\* A waiter that takes NotFound for a failure of the receipt query.
OnNotFoundFail(x) == Return(x, TxFailed, Some(Wrap("not found", "failed to get transaction receipt")))

\* What the waiter does on errors.Is(err, ethereum.NotFound): continue.
OnNotFound(x) == [Continue(x) EXCEPT !.notFound = x.notFound + 1]

\* client.TransactionReceipt answers ethereum.NotFound.
ReceiptNotFound ==
    /\ w.pc = "receipt"
    /\ ~ctxDone
    /\ Receipt(watched) = NULL
    /\ w' = OnNotFound(w)
    /\ UNCHANGED <<watched, clock, head, mined, sent, ctxDone, subErr>>

\* client.TransactionReceipt fails with another error.
ReceiptError ==
    /\ w.pc = "receipt"
    /\ w' = Return(w, TxFailed, Some(Wrap(RpcError, "failed to get transaction receipt")))
    /\ UNCHANGED <<watched, clock, head, mined, sent, ctxDone, subErr>>

\* client.TransactionReceipt answers the receipt. The WebSocket path checks
\* the confirmations against the header; the HTTP path asks BlockNumber.
ReceiptFound ==
    /\ w.pc = "receipt"
    /\ ~ctxDone
    /\ Receipt(watched) # NULL
    /\ w' = IF w.mode = WebSocketMode
            THEN Confirm([w EXCEPT !.notFound = 0], The(Receipt(watched)), w.hdr)
            ELSE [w EXCEPT !.pc = "confirm", !.rcpt = Receipt(watched), !.notFound = 0]
    /\ UNCHANGED <<watched, clock, head, mined, sent, ctxDone, subErr>>

\* HTTP path: client.BlockNumber after the receipt, then the check.
ConfirmBlockNumber ==
    /\ w.pc = "confirm"
    /\ \E answer \in RpcAnswers :
          w' = IF answer = "err"
               THEN Return(w, TxFailed, Some(Wrap(RpcError, "failed to get current block number")))
               ELSE Confirm([w EXCEPT !.cur = head], The(w.rcpt), head)
    /\ UNCHANGED <<watched, clock, head, mined, sent, ctxDone, subErr>>

(***************************************************************************)
(* The environment of the call.                                            *)
(***************************************************************************)
\* A block is produced; it may include one of the transactions of the
\* watched nonce, successfully or reverted.
NewBlock ==
    /\ head' = head + 1
    /\ \/ UNCHANGED mined
       \/ /\ mined = NULL
          /\ \E h \in SentHashes, ok \in BOOLEAN :
                mined' = Some([hash |-> h, blockNumber |-> head + 1, successful |-> ok])
    /\ UNCHANGED <<w, watched, clock, sent, ctxDone, subErr>>

\* Seconds pass.
Advance(d) ==
    /\ clock' = clock + d
    /\ UNCHANGED <<w, watched, head, mined, sent, ctxDone, subErr>>

\* The caller cancels the context.
CancelContext ==
    /\ ~ctxDone
    /\ ctxDone' = TRUE
    /\ UNCHANGED <<w, watched, clock, head, mined, sent, subErr>>

\* The subscription fails (the connection dropped).
SubscriptionFails ==
    /\ w.mode = WebSocketMode
    /\ w.pc \notin {"start", "subscribe"}
    /\ ~subErr
    /\ subErr' = TRUE
    /\ UNCHANGED <<w, watched, clock, head, mined, sent, ctxDone>>

InitWaiter ==
    /\ w = [pc |-> "start", mode |-> HTTPPollingMode, startTime |-> 0, startBlock |-> 0,
            hdr |-> 0, cur |-> 0, lastTick |-> 0, rcpt |-> NULL, notFound |-> 0,
            res |-> NoResult]
    /\ watched = 0
    /\ clock = 0
    /\ head = 0
    /\ mined = NULL
    /\ sent = <<>>
    /\ ctxDone = FALSE
    /\ subErr = FALSE

(***************************************************************************)
(* Part III. The Solana confirmation waiter,                               *)
(* chains/solana/wait_transaction.go. One call is modelled between its     *)
(* ticks and RPC calls.                                                    *)
(***************************************************************************)
\* rpc.ConfirmationStatusType
ConfirmationProcessed == "processed"
ConfirmationConfirmed == "confirmed"
ConfirmationFinalized == "finalized"

\* The slots the RPC nodes report. BlockhashSlot and the context slot of
\* IsBlockhashValid are uint64; the model keeps them below SlotModulus.
BlockhashSlots == {100}
ContextSlots == {99, 100, 260, 261}

\* currentSlot - txMetadata.BlockhashSlot, in unsigned arithmetic
SlotDifference(currentSlot, blockhashSlot) == (currentSlot - blockhashSlot) % SlotModulus

\* What the last RPC of the call answered.
NoPoll ==
    [kind |-> "none", failed |-> FALSE, confirmation |-> ConfirmationProcessed,
     slot |-> 0, valid |-> FALSE]

SolReturn(x, status, err) == [x EXCEPT !.pc = "returned", !.res = Result(status, err)]

\* WaitTransactionConfirmation up to the loop: the metadata assertion and
\* the parse of the signature.
SolanaCall ==
    /\ sol.pc = "start"
    /\ \E metadataOk \in BOOLEAN, signatureOk \in BOOLEAN, slot \in BlockhashSlots :
          sol' = IF ~metadataOk
                   THEN SolReturn(sol, TxFailed,
                          Some("failed to get solana metadata from transaction metadata"))
                 ELSE IF ~signatureOk
                   THEN SolReturn(sol, TxFailed, Some(Wrap("invalid base58", "failed to parse signature")))
                 ELSE [sol EXCEPT !.pc = "loop", !.blockhashSlot = slot]
    /\ UNCHANGED solChain

\* case <-ctx.Done()
SolanaContextDone ==
    /\ sol.pc = "loop"
    /\ solChain.ctxDone
    /\ sol' = SolReturn(sol, TxFailed, Some(ContextCanceled))
    /\ UNCHANGED solChain

\* case <-ticker.C
SolanaTick ==
    /\ sol.pc = "loop"
    /\ sol' = [sol EXCEPT !.pc = "statuses"]
    /\ UNCHANGED solChain

\* s.client.GetSignatureStatuses and the handling of statuses.Value[0]
GetSignatureStatuses ==
    /\ sol.pc = "statuses"
    /\ \/ sol' = [sol EXCEPT !.pc = "loop", !.poll = [NoPoll EXCEPT !.kind = "error"]]
       \/ /\ ~solChain.ctxDone
          /\ sol' =
               IF ~solChain.landed
                 THEN [sol EXCEPT !.pc = "blockhash", !.poll = [NoPoll EXCEPT !.kind = "absent"]]
               ELSE LET seen == [NoPoll EXCEPT !.kind = "status", !.failed = solChain.failed,
                                               !.confirmation = solChain.confirmation]
                        x == [sol EXCEPT !.poll = seen]
                    IN IF seen.failed THEN SolReturn(x, TxFailed, NULL)
                       ELSE IF seen.confirmation = ConfirmationFinalized
                         THEN SolReturn(x, TxDone, NULL)
                       ELSE [x EXCEPT !.pc = "loop"]
    /\ UNCHANGED solChain

\* s.client.IsBlockhashValid and the expiry check
IsBlockhashValid ==
    /\ sol.pc = "blockhash"
    /\ \/ sol' = [sol EXCEPT !.pc = "loop", !.poll = [NoPoll EXCEPT !.kind = "error"]]
       \/ /\ ~solChain.ctxDone
          /\ \E currentSlot \in ContextSlots, isValid \in BOOLEAN :
                LET x == [sol EXCEPT !.poll = [NoPoll EXCEPT !.kind = "blockhash",
                                                             !.slot = currentSlot,
                                                             !.valid = isValid]]
                IN sol' = IF SlotDifference(currentSlot, sol.blockhashSlot) > MaxValidSlots
                             /\ ~isValid
                          THEN SolReturn(x, TxNeedsRetry, NULL)
                          ELSE [x EXCEPT !.pc = "loop"]
    /\ UNCHANGED solChain

\* The cluster processes the transaction, successfully or with an error.
SignatureLands ==
    /\ ~solChain.landed
    /\ \E failed \in BOOLEAN :
          solChain' = [solChain EXCEPT !.landed = TRUE, !.failed = failed]
    /\ UNCHANGED sol

\* The transaction's block is confirmed, then finalized.
SignatureAdvances ==
    /\ solChain.landed
    /\ solChain.confirmation # ConfirmationFinalized
    /\ solChain' = [solChain EXCEPT !.confirmation =
                      IF solChain.confirmation = ConfirmationProcessed
                      THEN ConfirmationConfirmed ELSE ConfirmationFinalized]
    /\ UNCHANGED sol

\* The caller cancels the context of the call.
SolanaCancelContext ==
    /\ ~solChain.ctxDone
    /\ solChain' = [solChain EXCEPT !.ctxDone = TRUE]
    /\ UNCHANGED sol

InitSolana ==
    /\ sol = [pc |-> "start", res |-> NoResult, blockhashSlot |-> 0, poll |-> NoPoll]
    /\ solChain = [landed |-> FALSE, failed |-> FALSE,
                   confirmation |-> ConfirmationProcessed, ctxDone |-> FALSE]

(***************************************************************************)
(* Part IV. The connection monitor, connectionmonitor/monitor.go. Callers  *)
(* run Start and Stop concurrently; every successful Start spawns a        *)
(* monitorConnection goroutine.                                            *)
(***************************************************************************)
MonCallers == {"c1", "c2"}

IdleCall == [op |-> "none", pc |-> "idle", err |-> NULL]

\* A mutex that never makes a caller wait.
MutexFreeAlways(x) == TRUE

\* m.monitorMutex.Lock() can proceed
MutexFree(x) == x.mutex = NULL

\* A caller enters Start or Stop and waits for m.monitorMutex.
MonitorCall(c, op) ==
    /\ monCalls[c].pc = "idle"
    /\ monCalls' = [monCalls EXCEPT ![c] = [op |-> op, pc |-> "lock", err |-> NULL]]
    /\ mon' = [mon EXCEPT !.calls = mon.calls + 1]
    /\ UNCHANGED monLoops

\* m.monitorMutex.Lock()
MonitorLock(c) ==
    /\ monCalls[c].pc = "lock"
    /\ MutexFree(mon)
    /\ mon' = [mon EXCEPT !.mutex = Some(c)]
    /\ monCalls' = [monCalls EXCEPT ![c].pc = IF monCalls[c].op = "Start" THEN "check" ELSE "body"]
    /\ UNCHANGED monLoops

\* Start: if m.isMonitoring { Unlock; return error }
StartCheck(c) ==
    /\ monCalls[c].pc = "check"
    /\ IF mon.isMonitoring
       THEN /\ mon' = [mon EXCEPT !.mutex = NULL]
            /\ monCalls' = [monCalls EXCEPT ![c].pc = "idle",
                               ![c].err = Some("connection monitor is already running")]
       ELSE /\ monCalls' = [monCalls EXCEPT ![c].pc = "set"]
            /\ UNCHANGED mon
    /\ UNCHANGED monLoops

\* Start: m.isMonitoring = true; Unlock
StartSet(c) ==
    /\ monCalls[c].pc = "set"
    /\ mon' = [mon EXCEPT !.isMonitoring = TRUE, !.mutex = NULL,
                          !.running = mon.running + 1]
    /\ monCalls' = [monCalls EXCEPT ![c].pc = "go"]
    /\ UNCHANGED monLoops

\* The state of a monitorConnection goroutine at its select.
NewLoop ==
    [pc |-> "select", attempt |-> 0, reconnects |-> 0, failed |-> FALSE, err |-> NULL,
     ticks |-> 0]

\* Start: go m.monitorConnection(ctx); return nil
StartGo(c) ==
    /\ monCalls[c].pc = "go"
    /\ monLoops' = Append(monLoops, NewLoop)
    /\ monCalls' = [monCalls EXCEPT ![c].pc = "idle"]
    /\ UNCHANGED mon

\* Stop, holding the mutex: return if not monitoring; else close(m.stopChan)
\* and clear the flag. Closing a closed channel panics; the deferred Unlock
\* runs while the panic unwinds.
StopBody(c) ==
    /\ monCalls[c].pc = "body"
    /\ mon' = IF ~mon.isMonitoring THEN [mon EXCEPT !.mutex = NULL]
              ELSE IF mon.stopChan = "closed"
                THEN [mon EXCEPT !.mutex = NULL, !.panicked = TRUE,
                                 !.closes = mon.closes + 1]
              ELSE [mon EXCEPT !.mutex = NULL, !.stopChan = "closed",
                               !.isMonitoring = FALSE, !.running = 0,
                               !.closes = mon.closes + 1]
    /\ monCalls' = [monCalls EXCEPT ![c].pc = "idle"]
    /\ UNCHANGED monLoops

\* monitorConnection: case <-ctx.Done()
LoopContextDone(i) ==
    /\ monLoops[i].pc = "select"
    /\ mon.ctxDone
    /\ monLoops' = [monLoops EXCEPT ![i].pc = "exited"]
    /\ UNCHANGED <<mon, monCalls>>

\* monitorConnection: case <-m.stopChan
LoopStopped(i) ==
    /\ monLoops[i].pc = "select"
    /\ mon.stopChan = "closed"
    /\ monLoops' = [monLoops EXCEPT ![i].pc = "exited"]
    /\ UNCHANGED <<mon, monCalls>>

\* monitorConnection: case <-ticker.C, entering checkAndReconnect
LoopTick(i) ==
    /\ monLoops[i].pc = "select"
    /\ monLoops' = [monLoops EXCEPT ![i] =
                      [pc |-> "check", attempt |-> 0, reconnects |-> 0, failed |-> FALSE,
                       err |-> NULL, ticks |-> monLoops[i].ticks + 1]]
    /\ UNCHANGED <<mon, monCalls>>

\* checkAndReconnect: m.client.CheckConnection(ctx)
CheckConnection(i) ==
    /\ monLoops[i].pc = "check"
    /\ \E ok \in BOOLEAN :
          monLoops' = [monLoops EXCEPT ![i].pc = IF ok THEN "select" ELSE "reconnect",
                                       ![i].failed = ~ok,
                                       ![i].attempt = IF ok THEN 0 ELSE 1]
    /\ UNCHANGED <<mon, monCalls>>

\* A retry loop that runs one attempt too many.
LastAttemptLate(l) == l.attempt = maxReconnectAttempts + 1

\* checkAndReconnect: attempt == maxReconnectAttempts
LastAttempt(l) == l.attempt = maxReconnectAttempts

\* checkAndReconnect: m.client.Reconnect(ctx) in the retry loop
Reconnect(i) ==
    /\ monLoops[i].pc = "reconnect"
    /\ \E ok \in BOOLEAN :
          monLoops' = [monLoops EXCEPT ![i] =
             LET l == [monLoops[i] EXCEPT !.reconnects = monLoops[i].reconnects + 1,
                                          !.failed = ~ok] IN
             IF ok THEN [l EXCEPT !.pc = "select"]
             ELSE IF LastAttempt(l)
               THEN [l EXCEPT !.pc = "select", !.err = Some("failed to reconnect to chain")]
             ELSE [l EXCEPT !.pc = "backoff"]]
    /\ UNCHANGED <<mon, monCalls>>

\* checkAndReconnect: the select between ctx.Done() and
\* time.After(reconnectTimeout) after a failed attempt
Backoff(i) ==
    /\ monLoops[i].pc = "backoff"
    /\ \/ /\ mon.ctxDone
          /\ monLoops' = [monLoops EXCEPT ![i].pc = "select", ![i].err = Some(ContextCanceled)]
       \/ monLoops' = [monLoops EXCEPT ![i].pc = "reconnect",
                                       ![i].attempt = monLoops[i].attempt + 1]
    /\ UNCHANGED <<mon, monCalls>>

\* The context given to Start is cancelled.
MonitorCancelContext ==
    /\ ~mon.ctxDone
    /\ mon' = [mon EXCEPT !.ctxDone = TRUE]
    /\ UNCHANGED <<monCalls, monLoops>>

\* NewConnectionMonitor
InitMonitor ==
    /\ mon = [isMonitoring |-> FALSE, stopChan |-> "open", mutex |-> NULL,
              ctxDone |-> FALSE, panicked |-> FALSE, running |-> 0, closes |-> 0,
              calls |-> 0]
    /\ monCalls = [c \in MonCallers |-> IdleCall]
    /\ monLoops = <<>>

(***************************************************************************)
(* Part V. The EVM adapter's Reconnect (chains/evm, evmConnectionManager)  *)
(* and the event handler's subscriptions (chains/evm/handler). Three       *)
(* goroutines act on one adapter: the connection monitor's, in Reconnect   *)
(* and through it in UpdateClient; handleEvents, in reconnectSubscription; *)
(* and the owner's, in ShutdownListeners and through it in Stop. The       *)
(* handler starts in WebSocket mode (pollingTicker is nil); after a        *)
(* shutdown the owner may start a handler in polling mode.                 *)
(***************************************************************************)
Threads == {"monitor", "events", "main"}

\* &relaytypes.Subscription{}
EmptySubscription == [Subscription |-> "nil", EventChan |-> NULL, client |-> NULL]

\* Subscription.Close: s.Subscription.Unsubscribe() when it is not nil
Unsubscribed(s) ==
    [s EXCEPT !.Subscription = IF s.Subscription = "nil" THEN "nil" ELSE "unsubscribed"]

\* Subscription.Close: the fields of the subscription after the call
ClosedSubscription(s) == Unsubscribed(s)

\* Subscription.Close: close(s.EventChan) when it is not nil; counts the
\* close calls made on each channel
CloseEventChan(s) ==
    IF s.EventChan = NULL THEN evChans
    ELSE [evChans EXCEPT ![The(s.EventChan)] = evChans[The(s.EventChan)] + 1]

\* close of a closed channel
ClosePanics(s) == s.EventChan # NULL /\ evChans[The(s.EventChan)] >= 1

\* if h.<which>Subscription != nil { h.<which>Subscription.Close() } by
\* thread t, which goes on to position next; replace tells whether the
\* caller then stores a fresh Subscription in the field.
CloseField(t, which, next, replace) ==
    /\ evChans' = CloseEventChan(eh[which])
    /\ IF ClosePanics(eh[which])
       THEN /\ chain' = [chain EXCEPT !.panic = Some("close of closed channel")]
            /\ eh' = [eh EXCEPT ![which] = ClosedSubscription(eh[which])]
            /\ UNCHANGED thr
       ELSE /\ eh' = [eh EXCEPT ![which] = IF replace THEN EmptySubscription
                                           ELSE ClosedSubscription(eh[which])]
            /\ thr' = [thr EXCEPT ![t].pc = next]
            /\ UNCHANGED chain

\* evmConnectionManager.Reconnect: lock clientMutex and close the client
EvmReconnectClose ==
    /\ thr["monitor"].pc = "idle"
    /\ chain' = [chain EXCEPT !.closed = chain.closed \cup chain.client,
                              !.reconnects = chain.reconnects + 1]
    /\ thr' = [thr EXCEPT !["monitor"] = [pc |-> "dial", attempt |-> 0, err |-> NULL,
                                          reconnectAttempt |-> 0, tries |-> 0]]
    /\ UNCHANGED <<eh, evChans>>

\* Reconnect: ethclient.Dial; on an error return it, else store the client
EvmReconnectDial ==
    /\ thr["monitor"].pc = "dial"
    /\ \/ /\ thr' = [thr EXCEPT !["monitor"].pc = "returned",
                                !["monitor"].err = Some("dial error")]
          /\ UNCHANGED chain
       \/ /\ chain' = [chain EXCEPT !.client = Some(chain.dialed + 1),
                                    !.dialed = chain.dialed + 1]
          /\ thr' = [thr EXCEPT !["monitor"].pc = "handler"]
    /\ UNCHANGED <<eh, evChans>>

\* Reconnect: lock eventHandlerMutex; without a handler unlock and return
EvmReconnectHandler ==
    /\ thr["monitor"].pc = "handler"
    /\ chain.eventHandlerMutex = NULL
    /\ IF chain.eventHandler
       THEN /\ chain' = [chain EXCEPT !.eventHandlerMutex = Some("monitor")]
            /\ thr' = [thr EXCEPT !["monitor"].pc = "update_cancel"]
       ELSE /\ thr' = [thr EXCEPT !["monitor"].pc = "returned"]
            /\ UNCHANGED chain
    /\ UNCHANGED <<eh, evChans>>

\* UpdateClient: h.cancel()
UpdateClientCancel ==
    /\ thr["monitor"].pc = "update_cancel"
    /\ eh' = [eh EXCEPT !.ctxDone = TRUE]
    /\ thr' = [thr EXCEPT !["monitor"].pc = "update_relay"]
    /\ UNCHANGED <<chain, evChans>>

\* UpdateClient: close and replace the relay subscription
UpdateClientCloseRelay ==
    /\ thr["monitor"].pc = "update_relay"
    /\ CloseField("monitor", "relay", "update_transfer", TRUE)

\* UpdateClient: close and replace the transfer subscription
UpdateClientCloseTransfer ==
    /\ thr["monitor"].pc = "update_transfer"
    /\ CloseField("monitor", "transfer", "update_client", TRUE)

\* h.pollingTicker.Stop() when there is a ticker
TickerStopped(h) ==
    IF h.pollingTicker = NULL THEN h
    ELSE [h EXCEPT !.tickers[The(h.pollingTicker)] = "stopped"]

\* StartHTTPPolling: a new ticker in h.pollingTicker and a new polling
\* goroutine
StartHTTPPolling(h) ==
    [h EXCEPT !.tickers = Append(h.tickers, "running"),
              !.pollingTicker = Some(Len(h.tickers) + 1),
              !.pollers = h.pollers + 1]

\* An UpdateClient that keeps the handler's client.
UpdateClientKeepsClient ==
    /\ thr["monitor"].pc = "update_client"
    /\ eh' = [eh EXCEPT !.ctxDone = FALSE, !.pollers = 0]
    /\ thr' = [thr EXCEPT !["monitor"].pc = IF eh.pollingTicker # NULL
                                            THEN "update_polling" ELSE "setup"]
    /\ UNCHANGED <<chain, evChans>>

\* UpdateClient: a new context, h.client = client, then the test of
\* h.pollingTicker; without a ticker setupSubscriptions is next. The
\* polling goroutines that wait in the select wait on the context that was
\* cancelled and return: they are counted out here.
UpdateClientSet ==
    /\ thr["monitor"].pc = "update_client"
    /\ eh' = [eh EXCEPT !.ctxDone = FALSE, !.client = chain.client, !.pollers = 0]
    /\ thr' = [thr EXCEPT !["monitor"].pc = IF eh.pollingTicker # NULL
                                            THEN "update_polling" ELSE "setup"]
    /\ UNCHANGED <<chain, evChans>>

\* UpdateClient in polling mode: stop the ticker, StartHTTPPolling, return
UpdateClientRestartPolling ==
    /\ thr["monitor"].pc = "update_polling"
    /\ eh' = StartHTTPPolling(TickerStopped(eh))
    /\ thr' = [thr EXCEPT !["monitor"].pc = "setup_done", !["monitor"].err = NULL]
    /\ UNCHANGED <<chain, evChans>>

\* UpdateClient returns, whatever setupSubscriptions returned; Reconnect
\* unlocks eventHandlerMutex and returns nil
UpdateClientReturn ==
    /\ thr["monitor"].pc = "setup_done"
    /\ chain' = [chain EXCEPT !.eventHandlerMutex = NULL]
    /\ thr' = [thr EXCEPT !["monitor"].pc = "returned", !["monitor"].err = NULL]
    /\ UNCHANGED <<eh, evChans>>

\* The connection monitor is free to call Reconnect again.
EvmReconnectReturned ==
    /\ thr["monitor"].pc = "returned"
    /\ thr' = [thr EXCEPT !["monitor"] = [pc |-> "idle", attempt |-> 0, err |-> NULL,
                                          reconnectAttempt |-> 0, tries |-> 0]]
    /\ UNCHANGED <<chain, eh, evChans>>

\* setupSubscriptions: the Unsubscribe calls before the loop. The second
\* test reads the relay subscription and calls the transfer subscription.
SetupBegin(t) ==
    /\ thr[t].pc = "setup"
    /\ IF eh.relay.Subscription # "nil" /\ eh.transfer.Subscription = "nil"
       THEN /\ chain' = [chain EXCEPT !.panic = Some("nil pointer dereference")]
            /\ UNCHANGED <<eh, thr>>
       ELSE /\ eh' = [eh EXCEPT !.relay = Unsubscribed(eh.relay),
                                !.transfer = IF eh.relay.Subscription # "nil"
                                             THEN Unsubscribed(eh.transfer)
                                             ELSE eh.transfer]
            /\ thr' = [thr EXCEPT ![t].pc = "setup_relay", ![t].attempt = 0,
                                  ![t].err = NULL]
            /\ UNCHANGED chain
    /\ UNCHANGED evChans

\* setupSubscriptions: the loop's exit after handlerReconnectAttempts attempts, and
\* its test of the context
SetupGivesUp(t) ==
    /\ thr[t].pc = "setup_relay"
    /\ \/ thr[t].attempt = handlerReconnectAttempts
       \/ eh.ctxDone
    /\ thr' = [thr EXCEPT ![t].pc = "setup_done",
                          ![t].err = IF eh.ctxDone
                                     THEN Some("context cancelled while setting up subscriptions")
                                     ELSE thr[t].err]
    /\ UNCHANGED <<chain, eh, evChans>>

\* The passes of setupSubscriptions' loop that reconnectSubscription has
\* started since it was entered or since its last wait for the retry
\* ticker; a pass starts with the relay subscription.
Tried(t, which) ==
    IF t = "events" /\ which = "relay" THEN thr[t].tries + 1 ELSE thr[t].tries

\* A subscription of the handler's client set up on a new channel, or the
\* error of the attempt.
SetupOne(t, which, next, message) ==
    /\ \/ /\ ~eh.ctxDone
          /\ Len(evChans) < MaxChans
          /\ evChans' = Append(evChans, 0)
          /\ eh' = [eh EXCEPT ![which] = [Subscription |-> "subscribed",
                                          EventChan |-> Some(Len(evChans) + 1),
                                          client |-> eh.client]]
          /\ thr' = [thr EXCEPT ![t].pc = next, ![t].err = NULL,
                                ![t].tries = Tried(t, which)]
       \/ /\ eh' = [eh EXCEPT ![which] = Unsubscribed(eh[which])]
          /\ thr' = [thr EXCEPT ![t].pc = "setup_relay",
                                ![t].attempt = thr[t].attempt + 1,
                                ![t].err = Some(message),
                                ![t].tries = Tried(t, which)]
          /\ UNCHANGED evChans
    /\ UNCHANGED chain

\* setupRelayReceiverSubscription, in the loop of setupSubscriptions
SetupRelay(t) ==
    /\ thr[t].pc = "setup_relay"
    /\ thr[t].attempt < handlerReconnectAttempts
    /\ ~eh.ctxDone
    /\ SetupOne(t, "relay", "setup_transfer", "failed to subscribe to relay events")

\* setupTransferSubscription, in the loop of setupSubscriptions; its success
\* ends the loop
SetupTransfer(t) ==
    /\ thr[t].pc = "setup_transfer"
    /\ SetupOne(t, "transfer", "setup_done", "failed to subscribe to transfer events")

\* handleEvents: case <-h.ctx.Done()
HandleEventsDone ==
    /\ thr["events"].pc = "select"
    /\ eh.ctxDone
    /\ thr' = [thr EXCEPT !["events"].pc = "exited"]
    /\ UNCHANGED <<chain, eh, evChans>>

\* handleEvents: an error arrives from a subscription's Err() channel
HandleEventsError ==
    /\ thr["events"].pc = "select"
    /\ "subscribed" \in {eh.relay.Subscription, eh.transfer.Subscription}
    /\ thr' = [thr EXCEPT !["events"].pc = "reconnect_relay",
                          !["events"].reconnectAttempt = 1,
                          !["events"].tries = 0]
    /\ UNCHANGED <<chain, eh, evChans>>

\* reconnectSubscription: close the relay subscription
ReconnectSubscriptionCloseRelay ==
    /\ thr["events"].pc = "reconnect_relay"
    /\ CloseField("events", "relay", "reconnect_transfer", FALSE)

\* reconnectSubscription: close the transfer subscription
ReconnectSubscriptionCloseTransfer ==
    /\ thr["events"].pc = "reconnect_transfer"
    /\ CloseField("events", "transfer", "reconnect", FALSE)

\* reconnectSubscription: an attempt of the loop; return when the context
\* is cancelled, else call setupSubscriptions
ReconnectSubscriptionAttempt ==
    /\ thr["events"].pc = "reconnect"
    /\ thr' = [thr EXCEPT !["events"].pc = IF eh.ctxDone THEN "select" ELSE "setup"]
    /\ UNCHANGED <<chain, eh, evChans>>

\* reconnectSubscription: setupSubscriptions returned; return nil, or wait
\* for the retry ticker after the last attempt of a round, or sleep and go
\* to the next attempt
ReconnectSubscriptionNext ==
    /\ thr["events"].pc = "setup_done"
    /\ thr' = IF thr["events"].err = NULL
                THEN [thr EXCEPT !["events"].pc = "select"]
              ELSE IF thr["events"].reconnectAttempt = handlerReconnectAttempts
                THEN [thr EXCEPT !["events"].pc = "retry_wait"]
              ELSE [thr EXCEPT !["events"].pc = "reconnect",
                               !["events"].reconnectAttempt = thr["events"].reconnectAttempt + 1]
    /\ UNCHANGED <<chain, eh, evChans>>

\* reconnectSubscription: <-ticker.C of the retry ticker, attempt = 0 and
\* continue, which makes the next attempt the first of a round
ReconnectSubscriptionWait ==
    /\ thr["events"].pc = "retry_wait"
    /\ thr' = [thr EXCEPT !["events"].pc = "reconnect",
                          !["events"].reconnectAttempt = 1,
                          !["events"].tries = 0]
    /\ UNCHANGED <<chain, eh, evChans>>

\* ShutdownListeners: lock eventHandlerMutex; return when there is no handler
ShutdownListeners ==
    /\ thr["main"].pc = "idle"
    /\ chain.eventHandlerMutex = NULL
    /\ IF chain.eventHandler
       THEN /\ chain' = [chain EXCEPT !.eventHandlerMutex = Some("main")]
            /\ thr' = [thr EXCEPT !["main"].pc = "stop_cancel"]
       ELSE /\ thr' = [thr EXCEPT !["main"].pc = "returned"]
            /\ UNCHANGED chain
    /\ UNCHANGED <<eh, evChans>>

\* Stop: h.cancel()
StopCancel ==
    /\ thr["main"].pc = "stop_cancel"
    /\ eh' = [eh EXCEPT !.ctxDone = TRUE]
    /\ thr' = [thr EXCEPT !["main"].pc = "stop_relay"]
    /\ UNCHANGED <<chain, evChans>>

\* Stop: close the relay subscription
StopCloseRelay ==
    /\ thr["main"].pc = "stop_relay"
    /\ CloseField("main", "relay", "stop_transfer", FALSE)

\* Stop: close the transfer subscription
StopCloseTransfer ==
    /\ thr["main"].pc = "stop_transfer"
    /\ CloseField("main", "transfer", "stop_done", FALSE)

\* Stop: stop the ticker if there is one. ShutdownListeners:
\* e.eventHandler = nil; unlock
ShutdownReturn ==
    /\ thr["main"].pc = "stop_done"
    /\ eh' = TickerStopped(eh)
    /\ chain' = [chain EXCEPT !.eventHandler = FALSE, !.eventHandlerMutex = NULL]
    /\ thr' = [thr EXCEPT !["main"].pc = "returned"]
    /\ UNCHANGED evChans

\* Reconnect holds clientMutex from its first statement to its return.
ClientMutexHeld == thr["monitor"].pc \notin {"idle", "returned"}

\* InitHTTPPolling, called by the owner after the shutdown, when the
\* handleEvents goroutine of the stopped handler has ended: lock
\* eventHandlerMutex
InitHTTPPollingLock ==
    /\ thr["main"].pc = "returned"
    /\ thr["events"].pc = "exited"
    /\ chain.eventHandlerMutex = NULL
    /\ chain' = [chain EXCEPT !.eventHandlerMutex = Some("main")]
    /\ thr' = [thr EXCEPT !["main"].pc = "init_client"]
    /\ UNCHANGED <<eh, evChans>>

\* InitHTTPPolling: read the client under the read lock of clientMutex,
\* NewEventHandler, StartHTTPPolling, e.eventHandler = eventHandler; unlock
InitHTTPPollingStart ==
    /\ thr["main"].pc = "init_client"
    /\ ~ClientMutexHeld
    /\ eh' = StartHTTPPolling([eh EXCEPT !.client = chain.client, !.ctxDone = FALSE,
                                         !.relay = EmptySubscription,
                                         !.transfer = EmptySubscription,
                                         !.pollingTicker = NULL])
    /\ chain' = [chain EXCEPT !.eventHandler = TRUE, !.eventHandlerMutex = NULL]
    /\ thr' = [thr EXCEPT !["main"].pc = "polling"]
    /\ UNCHANGED evChans

\* The polling goroutine: case <-h.ctx.Done()
PollerExits ==
    /\ eh.pollers > 0
    /\ eh.ctxDone
    /\ eh' = [eh EXCEPT !.pollers = eh.pollers - 1]
    /\ UNCHANGED <<chain, thr, evChans>>

\* The polling goroutine: case <-h.pollingTicker.C, the call of pollEvents
PollerTick ==
    /\ eh.pollers > 0
    /\ ~eh.ctxDone
    /\ eh.pollingTicker # NULL
    /\ eh.tickers[The(eh.pollingTicker)] = "running"
    /\ eh' = [eh EXCEPT !.pollers = eh.pollers - 1, !.polling = eh.polling + 1]
    /\ UNCHANGED <<chain, thr, evChans>>

\* The polling goroutine: pollEvents returns and the loop comes back to the
\* select, which reads h.ctx and h.pollingTicker as they are now
PollerPolled ==
    /\ eh.polling > 0
    /\ eh' = [eh EXCEPT !.pollers = eh.pollers + 1, !.polling = eh.polling - 1]
    /\ UNCHANGED <<chain, thr, evChans>>

\* The adapter after NewEvm and InitWSSubscription: the client dialed, both
\* subscriptions set up on their channels, handleEvents at its select.
InitAdapter ==
    /\ chain = [client |-> Some(1), dialed |-> 1, closed |-> {}, reconnects |-> 0,
                eventHandler |-> TRUE, eventHandlerMutex |-> NULL, panic |-> NULL]
    /\ eh = [client |-> Some(1), ctxDone |-> FALSE,
             relay |-> [Subscription |-> "subscribed", EventChan |-> Some(1),
                        client |-> Some(1)],
             transfer |-> [Subscription |-> "subscribed", EventChan |-> Some(2),
                           client |-> Some(1)],
             pollingTicker |-> NULL, tickers |-> <<>>, pollers |-> 0, polling |-> 0]
    /\ evChans = <<0, 0>>
    /\ thr = [t \in Threads |->
                [pc |-> IF t = "events" THEN "select" ELSE "idle",
                 attempt |-> 0, err |-> NULL, reconnectAttempt |-> 0, tries |-> 0]]

(***************************************************************************)
(* Part VI. The chain registry, chainmanager/registry.go. Callers run Add, *)
(* Get and Remove concurrently; the owner of a chain starts and shuts down *)
(* its listeners through the chain itself.                                 *)
(***************************************************************************)
RegCallers == {"r1", "r2"}
ChainIDs == {1, 2}

IdleRegCall == [op |-> "none", id |-> 1, pc |-> "idle", chain |-> NULL, res |-> NULL,
                err |-> NULL]

\* A store that deletes the previous entry and needs a second call to insert.
StoredAfterDelete(chains, id, c) ==
    IF chains[id] # NULL THEN [chains EXCEPT ![id] = NULL]
    ELSE [chains EXCEPT ![id] = Some(c)]

\* r.chains[config.ChainID] = chain
Stored(chains, id, c) == [chains EXCEPT ![id] = Some(c)]

\* delete(r.chains, chainID)
Deleted(chains, id) == [chains EXCEPT ![id] = NULL]

\* A caller enters Add(ctx, config), Get(chainID) or Remove(chainID).
RegistryCall(c, op, id) ==
    /\ regCalls[c].pc = "idle"
    /\ regCalls' = [regCalls EXCEPT ![c] =
                      [IdleRegCall EXCEPT !.op = op, !.id = id,
                                          !.pc = IF op = "Add" THEN "create" ELSE "map"]]
    /\ registry' = [registry EXCEPT !.calls = registry.calls + 1]
    /\ UNCHANGED objs

\* Add: r.factory.CreateChain under the factory's read lock; return its error
AddCreate(c) ==
    /\ regCalls[c].pc = "create"
    /\ \/ /\ regCalls' = [regCalls EXCEPT ![c].pc = "idle",
                                         ![c].err = Some("failed to create chain")]
          /\ UNCHANGED objs
       \/ /\ Len(objs) < MaxBuilds
          /\ objs' = Append(objs, [id |-> regCalls[c].id, listening |-> FALSE])
          /\ regCalls' = [regCalls EXCEPT ![c].pc = "store",
                                         ![c].chain = Some(Len(objs) + 1)]
    /\ UNCHANGED registry

\* Add: store the chain under chainsMutex and return nil
AddStore(c) ==
    /\ regCalls[c].pc = "store"
    /\ registry' = [registry EXCEPT
                      !.chains = Stored(registry.chains, regCalls[c].id, The(regCalls[c].chain))]
    /\ regCalls' = [regCalls EXCEPT ![c].pc = "idle"]
    /\ UNCHANGED objs

\* Get: read the map under the read lock and return the entry
GetChain(c) ==
    /\ regCalls[c].pc = "map"
    /\ regCalls[c].op = "Get"
    /\ regCalls' = [regCalls EXCEPT ![c].pc = "idle",
                                   ![c].res = registry.chains[regCalls[c].id]]
    /\ UNCHANGED <<registry, objs>>

\* Remove: delete the entry under chainsMutex
RemoveChain(c) ==
    /\ regCalls[c].pc = "map"
    /\ regCalls[c].op = "Remove"
    /\ registry' = [registry EXCEPT !.chains = Deleted(registry.chains, regCalls[c].id)]
    /\ regCalls' = [regCalls EXCEPT ![c].pc = "idle"]
    /\ UNCHANGED objs

\* The chains the registry refers to.
Registered == UNION {registry.chains[id] : id \in ChainIDs}

\* Chain.InitWSSubscription or InitHTTPPolling on a chain got from the
\* registry: its listeners run.
StartListeners(n) ==
    /\ n \in Registered
    /\ ~objs[n].listening
    /\ objs' = [objs EXCEPT ![n].listening = TRUE]
    /\ UNCHANGED <<registry, regCalls>>

\* Chain.ShutdownListeners, called by whoever holds the chain
ChainShutdownListeners(n) ==
    /\ objs[n].listening
    /\ objs' = [objs EXCEPT ![n].listening = FALSE]
    /\ UNCHANGED <<registry, regCalls>>

\* NewChainRegistry
InitRegistry ==
    /\ registry = [chains |-> [id \in ChainIDs |-> NULL], calls |-> 0]
    /\ regCalls = [c \in RegCallers |-> IdleRegCall]
    /\ objs = <<>>

(***************************************************************************)
(* Part VII. HTTP polling of the event handler, chains/evm/handler/http.go *)
(* and processEvent of event_handler.go: the polling goroutine, the chain  *)
(* it polls and the consumer of the event channel.                         *)
(***************************************************************************)
\* The logs a new block can carry: their streams, in log-index order.
BlockLogs == {<<>>, <<"relay">>, <<"transfer">>, <<"transfer", "relay">>}

\* The logs of block b when its streams are ss.
LogsOf(b, ss) == {[block |-> b, index |-> i - 1, stream |-> ss[i]] : i \in DOMAIN ss}

\* (block_number, log_index) as one number.
LogKey(l) == l.block * 2 + l.index

RECURSIVE SortedLogs(_)
\* The logs of S in the order FilterLogs returns them.
SortedLogs(S) ==
    IF S = {} THEN <<>>
    ELSE LET first == CHOOSE l \in S : \A m \in S : LogKey(l) <= LogKey(m)
         IN <<first>> \o SortedLogs(S \ {first})

\* FilterLogs for one stream over the blocks from..to
FilterLogs(stream, from, to) ==
    SortedLogs({l \in pollChain.logs : l.stream = stream /\ l.block >= from /\ l.block <= to})

\* The answers an RPC made with h.ctx can give.
PollRpc == IF poll.ctxDone THEN {"err"} ELSE {"ok", "err"}

Min(a, b) == IF a < b THEN a ELSE b

\* The polling goroutine: case <-h.ctx.Done()
PollContextDone ==
    /\ poll.pc = "select"
    /\ poll.ctxDone
    /\ poll' = [poll EXCEPT !.pc = "exited"]
    /\ UNCHANGED <<pollChain, eventChan>>

\* The polling goroutine: case <-h.pollingTicker.C
PollTick ==
    /\ poll.pc = "select"
    /\ poll' = [poll EXCEPT !.pc = "poll"]
    /\ UNCHANGED <<pollChain, eventChan>>

\* A pollEvents that queries up to the head whatever the distance.
PollEventsUnclamped ==
    /\ poll.pc = "poll"
    /\ \E answer \in PollRpc :
          LET currentBlock == pollChain.head
              fromBlock == poll.lastProcessedBlock
          IN poll' =
               IF answer = "err" THEN [poll EXCEPT !.pc = "select"]
               ELSE IF fromBlock = 0
                 THEN [poll EXCEPT !.pc = "select", !.lastProcessedBlock = currentBlock]
               ELSE IF currentBlock <= fromBlock THEN [poll EXCEPT !.pc = "select"]
               ELSE [poll EXCEPT !.pc = "range", !.fromBlock = fromBlock + 1,
                                 !.toBlock = currentBlock]
    /\ UNCHANGED <<pollChain, eventChan>>

\* pollEvents up to the call of processBlockRange
PollEvents ==
    /\ poll.pc = "poll"
    /\ \E answer \in PollRpc :
          LET currentBlock == pollChain.head
              fromBlock == poll.lastProcessedBlock
          IN poll' =
               IF answer = "err" THEN [poll EXCEPT !.pc = "select"]
               ELSE IF fromBlock = 0
                 THEN [poll EXCEPT !.pc = "select", !.lastProcessedBlock = currentBlock]
               ELSE IF currentBlock <= fromBlock THEN [poll EXCEPT !.pc = "select"]
               ELSE [poll EXCEPT !.pc = "range", !.fromBlock = fromBlock + 1,
                                 !.toBlock = Min(fromBlock + maxBlockRange, currentBlock)]
    /\ UNCHANGED <<pollChain, eventChan>>

\* processBlockRange: both FilterLogs queries; an error of either ends
\* pollEvents, else the relay logs are processed, then the transfer logs
ProcessBlockRange ==
    /\ poll.pc = "range"
    /\ \E relay \in PollRpc, transfer \in PollRpc :
          poll' = IF "err" \in {relay, transfer} THEN [poll EXCEPT !.pc = "select"]
                  ELSE [poll EXCEPT !.pc = "process",
                           !.logs = FilterLogs("relay", poll.fromBlock, poll.toBlock)
                                    \o FilterLogs("transfer", poll.fromBlock, poll.toBlock)]
    /\ UNCHANGED <<pollChain, eventChan>>

\* The event signature whose hash is the first topic of a log: the relay
\* query asks for the two FundsForwarded signatures, the transfer query for
\* Transfer.
Topic0(l) ==
    IF l.stream = "relay" THEN "FundsForwarded()" ELSE "Transfer(address,address,uint256)"

\* The event types processEvent has a case for.
EventNames == {"FundsForwarded", "FundsForwardedWithData", "Transfer"}

\* utils.GetEventType, by the signature of the first topic
GetEventType(topic) ==
    CASE topic = "FundsForwarded()" -> "FundsForwarded"
      [] topic = "FundsForwardedWithData(bytes)" -> "FundsForwardedWithData"
      [] topic = "Transfer(address,address,uint256)" -> "Transfer"
      [] OTHER -> ""

\* The first argument processBlockRange gives processEvent for a log: the
\* decoded name in handler/http.go, the name of the query in the other
\* source of the handler.
EventTypeArguments(l) == {GetEventType(Topic0(l)), l.stream}

\* processEvent up to the send: an RPC error skips the log, and so does an
\* event type the switch has no case for
ProcessEvent ==
    /\ poll.pc = "process"
    /\ poll.logs # <<>>
    /\ \E eventType \in EventTypeArguments(Head(poll.logs)), answer \in PollRpc :
          poll' = IF answer = "err" \/ eventType \notin EventNames
                    THEN [poll EXCEPT !.logs = Tail(poll.logs), !.eventType = eventType]
                  ELSE [poll EXCEPT !.pc = "send", !.eventType = eventType]
    /\ UNCHANGED <<pollChain, eventChan>>

\* processEvent: h.eventChan <- chainEvent, which waits for the consumer
SendEvent ==
    /\ poll.pc = "send"
    /\ ~eventChan.stalled
    /\ eventChan' = [eventChan EXCEPT !.received = Append(eventChan.received, Head(poll.logs))]
    /\ poll' = [poll EXCEPT !.pc = "process", !.logs = Tail(poll.logs)]
    /\ UNCHANGED pollChain

\* A pollEvents that advances to the head after processBlockRange.
PollRangeDoneToHead ==
    /\ poll.pc = "process"
    /\ poll.logs = <<>>
    /\ poll' = [poll EXCEPT !.pc = "select", !.lastProcessedBlock = pollChain.head]
    /\ UNCHANGED <<pollChain, eventChan>>

\* pollEvents after processBlockRange returned nil
PollRangeDone ==
    /\ poll.pc = "process"
    /\ poll.logs = <<>>
    /\ poll' = [poll EXCEPT !.pc = "select", !.lastProcessedBlock = poll.toBlock]
    /\ UNCHANGED <<pollChain, eventChan>>

\* h.cancel(), by Stop, or the parent context is cancelled
PollCancel ==
    /\ ~poll.ctxDone
    /\ poll' = [poll EXCEPT !.ctxDone = TRUE]
    /\ UNCHANGED <<pollChain, eventChan>>

\* The chain grows by a block.
PollNewBlock ==
    /\ \E ss \in BlockLogs :
          pollChain' = [head |-> pollChain.head + 1,
                        logs |-> pollChain.logs \cup LogsOf(pollChain.head + 1, ss)]
    /\ UNCHANGED <<poll, eventChan>>

\* The consumer of the event channel stops receiving.
ConsumerStalls ==
    /\ ~eventChan.stalled
    /\ eventChan' = [eventChan EXCEPT !.stalled = TRUE]
    /\ UNCHANGED <<poll, pollChain>>

\* StartHTTPPolling on a new handler
InitPolling ==
    /\ poll = [pc |-> "select", lastProcessedBlock |-> 0, fromBlock |-> 0, toBlock |-> 0,
               logs |-> <<>>, eventType |-> "", ctxDone |-> FALSE]
    /\ pollChain = [head |-> 1, logs |-> {}]
    /\ eventChan = [stalled |-> FALSE, received |-> <<>>]

(***************************************************************************)
(* Part VIII. GetPendingTransactionsByChain, dbconfig/intents.go: one      *)
(* SELECT, of which the caller keeps the rows grouped by chain.            *)
(***************************************************************************)
\* to_chain_id of the row k. The column is written by the INSERT and by no
\* UPDATE; the rows of the model are spread over two chains.
ToChainID(k) == IF k[2] = "0xB1" THEN 1 ELSE 2

\* A WHERE clause that looks at the status alone.
PendingSelectedAnyAge(r, expirationTime) == r.status = StatusPending

\* WHERE i.status = $1 AND i.to_tx_set_at > $2
PendingSelected(r, expirationTime) ==
    /\ r.status = StatusPending
    /\ r.to_tx_set_at # NULL
    /\ The(r.to_tx_set_at) > expirationTime

\* ORDER BY i.to_chain_id, i.to_nonce: the orders in which the query can
\* return the rows KS; rows that agree on both columns come in any order
PendingOrders(KS) ==
    {s \in [1..Cardinality(KS) -> KS] :
        /\ \A i, j \in DOMAIN s : i # j => s[i] # s[j]
        /\ \A i, j \in DOMAIN s : i < j =>
              \/ ToChainID(s[i]) < ToChainID(s[j])
              \/ /\ ToChainID(s[i]) = ToChainID(s[j])
                 /\ The(intent[s[i]].to_nonce) <= The(intent[s[j]].to_nonce)}

\* rows.Scan into a types.Transaction: the columns that identify it
ScannedTransaction(k) ==
    [ChainID |-> ToChainID(k), Hash |-> The(intent[k].to_tx), QuoteID |-> k[1],
     Nonce |-> The(intent[k].to_nonce)]

\* The loop over the rows: each transaction is appended to its chain's list.
GroupedByChain(s) ==
    [c \in {ToChainID(s[i]) : i \in DOMAIN s} |->
        SelectSeq([i \in DOMAIN s |-> ScannedTransaction(s[i])], LAMBDA t : t.ChainID = c)]

\* GetPendingTransactionsByChain: a NULL in a scanned column fails the Scan
GetPendingTransactionsByChain ==
    LET expirationTime == now - ExpirationTime
        selected == {k \in DOMAIN intent : PendingSelected(intent[k], expirationTime)}
    IN /\ IF \E k \in selected : NULL \in {intent[k].to_tx, intent[k].to_nonce}
          THEN pendingTxs' = [calls |-> pendingTxs.calls + 1,
                              err |-> Some("failed to scan transaction"), byChain |-> <<>>]
          ELSE \E s \in PendingOrders(selected) :
                  pendingTxs' = [calls |-> pendingTxs.calls + 1, err |-> NULL,
                                 byChain |-> GroupedByChain(s)]
       /\ UNCHANGED dbVars

InitPending == pendingTxs = [calls |-> 0, err |-> NULL, byChain |-> <<>>]

(***************************************************************************)
(* Part IX.  The transactions built by the stuck-transaction handling      *)
(* (src/chains/evm/wait_transaction.go, src/unnamed/part_002).             *)
(***************************************************************************)
\* Minimum price of a replacement, in percent of the old price.
gasIncreaseFactor == 110

\* Prices, base fees and tips answered by the node, and of the original.
MaxGasPrice == 6
GasPrices == 0..MaxGasPrice

\* Replacements of one original before the mempool is left alone.
MaxReplacements == 2

TxTypeLegacy == "legacy"
TxTypeEIP1559 == "eip1559"

SignerAddress == "0xS"
Recipients == {"0xR", SignerAddress}

\* ethtypes.NewTransaction: a legacy transaction.
NewTransaction(nonce, to, amount, gasLimit, gasPrice, data) ==
    [type |-> TxTypeLegacy, nonce |-> nonce, to |-> to, value |-> amount,
     gas |-> gasLimit, gasPrice |-> gasPrice, gasTipCap |-> gasPrice,
     data |-> data, from |-> NULL]

\* ethtypes.NewTx(&ethtypes.DynamicFeeTx{...})
DynamicFeeTx(nonce, gasTipCap, gasFeeCap, gasLimit, to, amount, data) ==
    [type |-> TxTypeEIP1559, nonce |-> nonce, to |-> to, value |-> amount,
     gas |-> gasLimit, gasPrice |-> gasFeeCap, gasTipCap |-> gasTipCap,
     data |-> data, from |-> NULL]

\* signer.SignTx: the transaction with the signer as its sender.
SignTx(tx) == [tx EXCEPT !.from = Some(SignerAddress)]

\* getEIP1559GasPrice: MaxFeePerGas from the base fee and the suggested tip;
\* a tip of zero, or a failed SuggestGasTipCap, counts as 1.
MaxFeePerGas(baseFee, suggestedTip) ==
    LET tip == IF suggestedTip = 0 THEN 1 ELSE suggestedTip
        maxFeePerGas == (baseFee * 130) \div 100 + tip
    IN  IF maxFeePerGas <= tip THEN tip + baseFee ELSE maxFeePerGas

\* The price the node reports: MaxFeePerGas for EIP-1559, SuggestGasPrice
\* otherwise.
CurrentGasPrice(txType, baseFee, suggested) ==
    IF txType = TxTypeEIP1559 THEN MaxFeePerGas(baseFee, suggested) ELSE suggested

\* A replacement price that ignores the node's price.
MinGasPriceOnly(currentGasPrice, oldGasPrice) ==
    (oldGasPrice * gasIncreaseFactor) \div 100

\* getNewGasPrice, after the node's price is known.
GetNewGasPrice(currentGasPrice, oldGasPrice) ==
    LET minGasPrice == (oldGasPrice * gasIncreaseFactor) \div 100
    IN  IF currentGasPrice > minGasPrice THEN currentGasPrice ELSE minGasPrice

\* replaceTransaction: the transaction it assembles from oldTx.
ReplacementOf(txType, oldTx, newGasPrice) ==
    IF txType = TxTypeEIP1559
      THEN DynamicFeeTx(oldTx.nonce, oldTx.gasTipCap, newGasPrice, oldTx.gas,
                        oldTx.to, oldTx.value, oldTx.data)
      ELSE NewTransaction(oldTx.nonce, oldTx.to, oldTx.value, oldTx.gas,
                          newGasPrice, oldTx.data)

\* cancelTransaction: the transaction it assembles from the pending one.
CancelOf(txType, transaction) ==
    LET gasPrice == (transaction.gasPrice * 150) \div 100
    IN  IF txType = TxTypeEIP1559
          THEN DynamicFeeTx(transaction.nonce, transaction.gasTipCap, gasPrice,
                            21000, SignerAddress, 0, <<>>)
          ELSE NewTransaction(transaction.nonce, SignerAddress, 0, 21000,
                              gasPrice, <<>>)

\* The adapter sent a transaction of its configured type; it is pending.
SendOriginal ==
    /\ rbf.pending = NULL
    /\ rbf.submitted = <<>>
    /\ \E txType \in {TxTypeLegacy, TxTypeEIP1559}, nonce \in Nonces,
          to \in Recipients, amount \in {0, 1}, gasLimit \in {21000, 50000},
          gasPrice \in GasPrices, gasTipCap \in {1, 2}, data \in {<<>>, <<1>>} :
          rbf' = [rbf EXCEPT
                    !.txType = txType,
                    !.original = Some(nonce),
                    !.pending = Some(SignTx(
                        IF txType = TxTypeEIP1559
                          THEN DynamicFeeTx(nonce, gasTipCap, gasPrice, gasLimit,
                                            to, amount, data)
                          ELSE NewTransaction(nonce, to, amount, gasLimit,
                                              gasPrice, data)))]

\* replaceTransaction with every RPC answering: the replacement is signed
\* and sent, and is the pending transaction from now on.
SendReplacement ==
    /\ rbf.pending # NULL
    /\ Len(rbf.submitted) < MaxReplacements
    /\ \E baseFee \in GasPrices, suggested \in GasPrices :
          LET oldTx == The(rbf.pending)
              current == CurrentGasPrice(rbf.txType, baseFee, suggested)
              newTx == SignTx(ReplacementOf(rbf.txType, oldTx,
                                            GetNewGasPrice(current, oldTx.gasPrice)))
          IN  rbf' = [rbf EXCEPT
                        !.network = current,
                        !.submitted = Append(@, [kind |-> "replace", of |-> oldTx, tx |-> newTx]),
                        !.pending = Some(newTx)]

\* cancelTransaction with every RPC answering: the cancel transaction is
\* signed and sent; the handling ends.
SendCancel ==
    /\ rbf.pending # NULL
    /\ LET transaction == The(rbf.pending)
           newTx == SignTx(CancelOf(rbf.txType, transaction))
       IN  rbf' = [rbf EXCEPT
                     !.submitted = Append(@, [kind |-> "cancel", of |-> transaction, tx |-> newTx]),
                     !.pending = NULL]

InitReplacements ==
    rbf = [txType |-> TxTypeLegacy, original |-> NULL, pending |-> NULL,
           network |-> 0, submitted |-> <<>>]

(***************************************************************************)
(* Part X.  The Chain facade, chainmanager/chain.go: every method takes    *)
(* the read lock of the capability it borrows, tests the capability for    *)
(* nil and calls it; the deferred RUnlock runs when the method returns.    *)
(***************************************************************************)
FacadeCallers == {"f1", "f2"}
Capabilities == {"handler", "estimator", "sender", "watcher"}

\* The methods of the facade and the capability each one borrows.
FacadeMethods ==
    [InitWSSubscription |-> "handler", InitHTTPPolling |-> "handler",
     ValidateTransaction |-> "handler", ShutdownListeners |-> "handler",
     EstimateGas |-> "estimator", SendAsset |-> "sender",
     WaitTransactionConfirmation |-> "watcher"]

ErrNotImplemented == "not implemented"

IdleFacadeCall == [pc |-> "idle", method |-> "none", res |-> NULL]

\* c.<capability>Mutex.RLock() by caller c
RLocked(rlocks, capability, c) ==
    [rlocks EXCEPT ![capability] = rlocks[capability] \cup {c}]

\* c.<capability>Mutex.RUnlock() by caller c
RUnlocked(rlocks, capability, c) ==
    [rlocks EXCEPT ![capability] = rlocks[capability] \ {c}]

\* NewChain: the capabilities the adapter implements are stored, the others
\* are nil.
NewChain ==
    /\ ~facade.built
    /\ \E implemented \in SUBSET Capabilities :
          facade' = [facade EXCEPT !.built = TRUE, !.implemented = implemented]

\* A caller enters a method: RLock, with the RUnlock deferred.
FacadeEnter(c, method) ==
    /\ facade.built
    /\ facade.calls[c].pc = "idle"
    /\ facade' = [facade EXCEPT
                    !.rlocks = RLocked(facade.rlocks, FacadeMethods[method], c),
                    !.calls[c] = [pc |-> "locked", method |-> method, res |-> NULL]]

\* The test of the capability for nil: return ErrNotImplemented, which runs
\* the deferred RUnlock, or call into the capability.
FacadeInvoke(c) ==
    /\ facade.calls[c].pc = "locked"
    /\ LET capability == FacadeMethods[facade.calls[c].method]
       IN  IF capability \in facade.implemented
             THEN facade' = [facade EXCEPT !.calls[c].pc = "in_call"]
             ELSE facade' = [facade EXCEPT
                               !.rlocks = RUnlocked(facade.rlocks, capability, c),
                               !.calls[c].pc = "idle",
                               !.calls[c].res = Some(ErrNotImplemented)]

\* The capability's method returns; the facade returns its result and the
\* deferred RUnlock runs.
FacadeReturn(c) ==
    /\ facade.calls[c].pc = "in_call"
    /\ \E res \in {"nil", "error"} :
          facade' = [facade EXCEPT
                       !.rlocks = RUnlocked(facade.rlocks,
                                            FacadeMethods[facade.calls[c].method], c),
                       !.calls[c].pc = "idle",
                       !.calls[c].res = Some(res)]

InitFacade ==
    facade = [built |-> FALSE, implemented |-> {},
              rlocks |-> [k \in Capabilities |-> {}],
              calls |-> [c \in FacadeCallers |-> IdleFacadeCall]]

(***************************************************************************)
(* Specifications.                                                         *)
(***************************************************************************)
Init == InitIntents /\ InitWaiter /\ InitSolana /\ InitMonitor /\ InitAdapter /\ InitRegistry /\ InitPolling /\ InitPending /\ InitReplacements /\ InitFacade

\* A step of the waiter or of its environment.
Evm(A) == A /\ UNCHANGED <<dbVars, sched, solVars, monVars, adapterVars, registryVars, pollVars, pendingVars, replacementVars, facadeVars>>

\* The call is in progress.
Running == w.pc \notin {"returned", "panicked"}

NextWait ==
    \/ Evm(Call)
    \/ Evm(Subscribe)
    \/ Evm(ContextDone)
    \/ Evm(SubscriptionError)
    \/ Evm(NewHeader)
    \/ Evm(TickerFired)
    \/ Evm(StuckBlockNumber)
    \/ Evm(ReplaceTransaction)
    \/ Evm(CancelUnprofitable)
    \/ Evm(CancelTransaction)
    \/ Evm(ReceiptNotFound)
    \/ Evm(ReceiptError)
    \/ Evm(ReceiptFound)
    \/ Evm(ConfirmBlockNumber)
    \/ Evm(Running /\ head < MaxBlock /\ NewBlock)
    \/ Evm(Running /\ \E d \in ClockSteps : clock + d <= MaxClock /\ Advance(d))
    \/ Evm(Running /\ CancelContext)
    \/ Evm(Running /\ SubscriptionFails)

SpecWait == Init /\ [][NextWait]_vars

\* A step of the Solana waiter or of its environment.
Solana(A) == A /\ UNCHANGED <<dbVars, sched, evmVars, monVars, adapterVars, registryVars, pollVars, pendingVars, replacementVars, facadeVars>>

NextSolana ==
    \/ Solana(SolanaCall)
    \/ Solana(SolanaContextDone)
    \/ Solana(SolanaTick)
    \/ Solana(GetSignatureStatuses)
    \/ Solana(IsBlockhashValid)
    \/ Solana(sol.pc # "returned" /\ SignatureLands)
    \/ Solana(sol.pc # "returned" /\ SignatureAdvances)
    \/ Solana(sol.pc # "returned" /\ SolanaCancelContext)

SpecSolana == Init /\ [][NextSolana]_vars

\* A step of the connection monitor, of its callers or of its environment.
\* A panic ends the process.
Monitor(A) == ~mon.panicked /\ A /\ UNCHANGED <<dbVars, sched, evmVars, solVars, adapterVars, registryVars, pollVars, pendingVars, replacementVars, facadeVars>>

NextMonitor ==
    \/ Monitor(\E c \in MonCallers, op \in {"Start", "Stop"} :
                 mon.calls < MaxCalls /\ MonitorCall(c, op))
    \/ Monitor(\E c \in MonCallers : MonitorLock(c))
    \/ Monitor(\E c \in MonCallers : StartCheck(c))
    \/ Monitor(\E c \in MonCallers : StartSet(c))
    \/ Monitor(\E c \in MonCallers : StartGo(c))
    \/ Monitor(\E c \in MonCallers : StopBody(c))
    \/ Monitor(\E i \in DOMAIN monLoops : LoopContextDone(i))
    \/ Monitor(\E i \in DOMAIN monLoops : LoopStopped(i))
    \/ Monitor(\E i \in DOMAIN monLoops : monLoops[i].ticks < MaxTicks /\ LoopTick(i))
    \/ Monitor(\E i \in DOMAIN monLoops : CheckConnection(i))
    \/ Monitor(\E i \in DOMAIN monLoops : Reconnect(i))
    \/ Monitor(\E i \in DOMAIN monLoops : Backoff(i))
    \/ Monitor(MonitorCancelContext)

SpecMonitor == Init /\ [][NextMonitor]_vars

\* A step of a goroutine acting on the EVM adapter. A panic ends the process.
Adapter(A) ==
    chain.panic = NULL /\ A /\ UNCHANGED <<dbVars, sched, evmVars, solVars, monVars, registryVars, pollVars, pendingVars, replacementVars, facadeVars>>

NextAdapter ==
    \/ Adapter(chain.reconnects < MaxReconnects /\ EvmReconnectClose)
    \/ Adapter(EvmReconnectDial)
    \/ Adapter(EvmReconnectHandler)
    \/ Adapter(UpdateClientCancel)
    \/ Adapter(UpdateClientCloseRelay)
    \/ Adapter(UpdateClientCloseTransfer)
    \/ Adapter(UpdateClientSet)
    \/ Adapter(UpdateClientRestartPolling)
    \/ Adapter(UpdateClientReturn)
    \/ Adapter(EvmReconnectReturned)
    \/ Adapter(\E t \in {"monitor", "events"} : SetupBegin(t))
    \/ Adapter(\E t \in {"monitor", "events"} : SetupGivesUp(t))
    \/ Adapter(\E t \in {"monitor", "events"} : SetupRelay(t))
    \/ Adapter(\E t \in {"monitor", "events"} : SetupTransfer(t))
    \/ Adapter(HandleEventsDone)
    \/ Adapter(HandleEventsError)
    \/ Adapter(ReconnectSubscriptionCloseRelay)
    \/ Adapter(ReconnectSubscriptionCloseTransfer)
    \/ Adapter(ReconnectSubscriptionAttempt)
    \/ Adapter(ReconnectSubscriptionNext)
    \/ Adapter(ReconnectSubscriptionWait)
    \/ Adapter(ShutdownListeners)
    \/ Adapter(StopCancel)
    \/ Adapter(StopCloseRelay)
    \/ Adapter(StopCloseTransfer)
    \/ Adapter(ShutdownReturn)
    \/ Adapter(InitHTTPPollingLock)
    \/ Adapter(InitHTTPPollingStart)
    \/ Adapter(PollerExits)
    \/ Adapter(PollerTick)
    \/ Adapter(PollerPolled)

SpecAdapter == Init /\ [][NextAdapter]_vars

\* A step of a caller of the registry or of the owner of a chain.
Registry(A) == A /\ UNCHANGED <<dbVars, sched, evmVars, solVars, monVars, adapterVars, pollVars, pendingVars, replacementVars, facadeVars>>

NextRegistry ==
    \/ Registry(\E c \in RegCallers, op \in {"Add", "Get", "Remove"}, id \in ChainIDs :
                  registry.calls < MaxRegistryCalls /\ RegistryCall(c, op, id))
    \/ Registry(\E c \in RegCallers : AddCreate(c))
    \/ Registry(\E c \in RegCallers : AddStore(c))
    \/ Registry(\E c \in RegCallers : GetChain(c))
    \/ Registry(\E c \in RegCallers : RemoveChain(c))
    \/ Registry(\E n \in DOMAIN objs : StartListeners(n))
    \/ Registry(\E n \in DOMAIN objs : ChainShutdownListeners(n))

SpecRegistry == Init /\ [][NextRegistry]_vars

\* A step of the polling goroutine, of the chain or of the consumer.
Polling(A) ==
    A /\ UNCHANGED <<dbVars, sched, evmVars, solVars, monVars, adapterVars, registryVars, pendingVars, replacementVars, facadeVars>>

\* The steps of the polling goroutine.
Poller ==
    \/ PollContextDone
    \/ PollTick
    \/ PollEvents
    \/ ProcessBlockRange
    \/ ProcessEvent
    \/ SendEvent
    \/ PollRangeDone

NextPolling ==
    \/ Polling(PollContextDone)
    \/ Polling(PollTick)
    \/ Polling(PollEvents)
    \/ Polling(ProcessBlockRange)
    \/ Polling(ProcessEvent)
    \/ Polling(SendEvent)
    \/ Polling(PollRangeDone)
    \/ Polling(PollCancel)
    \/ Polling(pollChain.head < MaxPollBlock /\ PollNewBlock)
    \/ Polling(ConsumerStalls)

SpecPolling == Init /\ [][NextPolling]_vars

\* The goroutine is scheduled, and a select whose context is done again and
\* again takes that case in the end; nothing obliges the consumer to
\* receive.
SpecPollingLive ==
    SpecPolling /\ WF_vars(Polling(Poller)) /\ SF_vars(Polling(PollContextDone))

\* A step of the stuck-transaction handling's transaction building.
Replacements(A) ==
    A /\ UNCHANGED <<dbVars, sched, evmVars, solVars, monVars, adapterVars, registryVars, pollVars, pendingVars, facadeVars>>

NextReplacements ==
    \/ Replacements(SendOriginal)
    \/ Replacements(SendReplacement)
    \/ Replacements(SendCancel)

SpecReplacements == Init /\ [][NextReplacements]_vars


\* A step of a caller of the Chain facade.
Facade(A) ==
    A /\ UNCHANGED <<dbVars, sched, evmVars, solVars, monVars, adapterVars, registryVars, pollVars, pendingVars, replacementVars>>

NextFacade ==
    \/ Facade(NewChain)
    \/ Facade(\E c \in FacadeCallers, method \in DOMAIN FacadeMethods : FacadeEnter(c, method))
    \/ Facade(\E c \in FacadeCallers : FacadeInvoke(c))
    \/ Facade(\E c \in FacadeCallers : FacadeReturn(c))

SpecFacade == Init /\ [][NextFacade]_vars


\* A step of the persistence layer alone.
Db(A) == A /\ UNCHANGED <<sched, evmVars, solVars, monVars, adapterVars, registryVars, pollVars, pendingVars, replacementVars, facadeVars>>

\* One solver: every operation, on the row of quote 0xQ1; the row of quote
\* 0xQ2 is only observed and fetched.
Next ==
    \/ Db(Ingest({<<"0xQ1", "0xB1">>, <<"0xQ2", "0xB1">>}, {"0xF1"}))
    \/ Db(Retry({"0xQ1"}))
    \/ Db(Settle({"0xQ1"}, TxHashes, Nonces))
    \/ Db(Fetch({"s1"}))
    \/ Db(Clock)

Spec == Init /\ [][Next]_vars

\* Two solvers fetch concurrently while rows are observed, re-observed and
\* reset for a retry.
NextSolvers ==
    \/ Db(Ingest({<<"0xQ1", "0xB1">>, <<"0xQ2", "0xB1">>}, {"0xF1"}))
    \/ Db(Retry(Quotes))
    \/ Db(Fetch(Solvers))
    \/ Db(Clock)

SpecSolvers == Init /\ [][NextSolvers]_vars

\* Redundant event sources observe the same pairs with differing data while
\* one solver works on quote 0xQ1.
NextIngest ==
    \/ Db(Ingest({<<"0xQ1", "0xB1">>, <<"0xQ1", "0xB2">>, <<"0xQ2", "0xB1">>}, FromTxs))
    \/ Db(Settle({"0xQ1"}, {"0xH1"}, {7}))
    \/ Db(Fetch({"s1"}))

SpecIngest == Init /\ [][NextIngest]_vars

(***************************************************************************)
(* The happy path of one intent: the scheduler observes a deposit once,    *)
(* fetches the intent, records the destination transaction it sent and     *)
(* then its confirmation, while rows of another quote are observed and     *)
(* fetched and time passes.                                                *)
(***************************************************************************)
SchedKey == CHOOSE k \in Keys : sched.key = Some(k)

Observe ==
    /\ sched.step = "observe"
    /\ \E i \in NewIntents({<<"0xQ1", "0xB1">>, <<"0xQ1", "0xB2">>}, FromTxs) :
          /\ RowsOf(i.quote_id) = {}
          /\ InsertIntent(i)
          /\ sched' = [sched EXCEPT !.step = "fetch", !.key = Some(<<i.quote_id, i.block_hash>>)]

FetchStep ==
    \E s \in {"s1"} :
        \/ /\ BeginTx(s) \/ StartQuery(s) \/ LockRows(s) \/ SerializationFailure(s) \/ Rollback(s)
           /\ UNCHANGED sched
        \/ /\ Commit(s)
           /\ sched' = IF sched.step = "fetch" /\ sched.key # NULL /\ sched.key \subseteq held[s]
                        THEN [sched EXCEPT !.step = "send"]
                        ELSE sched

RecordSent ==
    /\ sched.step = "send"
    /\ \E h \in TxHashes, n \in Nonces :
          /\ SetPendingIntentStatus(QuoteOf(SchedKey), h, n)
          /\ sched' = [sched EXCEPT !.step = "wait", !.to_tx = Some(h), !.nonce = Some(n)]

RecordDone ==
    /\ sched.step = "wait"
    /\ \E n \in sched.nonce : SetDoneIntentStatus(QuoteOf(SchedKey), n)
    /\ sched' = [sched EXCEPT !.step = "done"]

\* A step of the scheduler's path through the persistence layer.
Scheduler(A) == A /\ UNCHANGED <<evmVars, solVars, monVars, adapterVars, registryVars, pollVars, pendingVars, replacementVars, facadeVars>>

NextHappy ==
    \/ Scheduler(Observe)
    \/ Scheduler(FetchStep)
    \/ Scheduler(RecordSent)
    \/ Scheduler(RecordDone)
    \/ Db(Ingest({<<"0xQ2", "0xB1">>}, {"0xF1"}))
    \/ Db(Clock)

SpecHappy == Init /\ [][NextHappy]_vars

\* The persistence layer with a caller of GetPendingTransactionsByChain.
Pending(A) ==
    A /\ UNCHANGED <<sched, evmVars, solVars, monVars, adapterVars, registryVars, pollVars, replacementVars, facadeVars>>

NextPending ==
    \/ Db(Ingest({<<"0xQ1", "0xB1">>, <<"0xQ2", "0xB1">>, <<"0xQ2", "0xB2">>}, {"0xF1"}))
    \/ Db(\E q \in Quotes, n \in Nonces : SetPendingIntentStatus(q, "0xH1", n))
    \/ Db(\E q \in Quotes : SetDoneIntentStatus(q, 7))
    \/ Db(Clock)
    \/ Pending(pendingTxs.calls < MaxPendingCalls /\ GetPendingTransactionsByChain)

SpecPending == Init /\ [][NextPending]_vars

(***************************************************************************)
(* Properties of the persistence layer.                                    *)
(***************************************************************************)
AllIntents == NewIntents(Keys, FromTxs)
KeyOf(i) == <<i.quote_id, i.block_hash>>

\* C1. InsertIntent on a (quote_id, block_hash) pair that is not in the table
\* creates exactly one row, with quorum 1; on a pair that is in the table it
\* creates no row, adds exactly 1 to that row's quorum and changes no other
\* column of it; in both cases every other row is unchanged, whatever data
\* the call carries.
InsertIntentFrame ==
    [][\A i \in AllIntents : InsertIntent(i) =>
          /\ \A x \in DOMAIN intent \ {KeyOf(i)} : intent'[x] = intent[x]
          /\ IF KeyOf(i) \in DOMAIN intent
             THEN /\ DOMAIN intent' = DOMAIN intent
                  /\ intent'[KeyOf(i)] =
                        [intent[KeyOf(i)] EXCEPT !.quorum = intent[KeyOf(i)].quorum + 1]
             ELSE /\ DOMAIN intent' = DOMAIN intent \cup {KeyOf(i)}
                  /\ intent'[KeyOf(i)].quorum = 1]_vars

\* C1 witness: a pair was observed twice with different data while a second
\* row exists: one row has quorum 2, and it is no longer CREATED.
InsertIntentTwice ==
    \E k \in DOMAIN intent :
        /\ intent[k].quorum = 2
        /\ intent[k].status = StatusDone
        /\ Cardinality(DOMAIN intent) = 2

\* C2. Exactly-once hand-off: the rows two concurrent GetCreatedIntents
\* transactions hold are disjoint, and over any number of calls a row is
\* returned at most once for each time it is CREATED (once, plus once per
\* retry reset).
DisjointHandOff ==
    /\ \A s \in Solvers, t \in Solvers : s # t => held[s] \cap held[t] = {}
    /\ \A k \in Keys :
          handed[k] <= (IF k \in DOMAIN intent THEN intent[k].retries ELSE 0) + 1

\* C2 witness: both solvers are inside GetCreatedIntents, each holding a row.
BothSolversHold ==
    /\ pc["s1"] = "locked" /\ held["s1"] # {}
    /\ pc["s2"] = "locked" /\ held["s2"] # {}

\* C3. The status of a row changes only along CREATED -> PENDING ->
\* (DONE | FAILED) and FAILED -> CREATED; in particular never DONE -> PENDING
\* nor FAILED -> DONE.
AllowedTransitions ==
    { <<StatusCreated, StatusPending>>, <<StatusPending, StatusDone>>,
      <<StatusPending, StatusFailed>>, <<StatusFailed, StatusCreated>> }

MonotonicStatus ==
    [][\A k \in DOMAIN intent :
          \/ intent'[k].status = intent[k].status
          \/ <<intent[k].status, intent'[k].status>> \in AllowedTransitions]_vars

\* C4, as claimed. to_tx is non-null exactly when the status is PENDING or DONE.
ToTxIffPendingOrDone ==
    \A k \in DOMAIN intent :
        intent[k].to_tx # NULL <=> intent[k].status \in {StatusPending, StatusDone}

\* C4, amended. A row with a non-null to_tx is PENDING, DONE or FAILED: no
\* CREATED row carries a destination transaction.
ToTxOnlyAfterSend ==
    \A k \in DOMAIN intent :
        intent[k].to_tx # NULL =>
            intent[k].status \in {StatusPending, StatusDone, StatusFailed}

\* C4 witness: a row that carried a destination transaction was reset for a
\* retry and is CREATED again.
ResetAfterSend ==
    \E k \in DOMAIN intent :
        /\ intent[k].status = StatusCreated
        /\ intent[k].retries > 0
        /\ intent[k].sub_status # NULL

\* C5. A row whose to_tx_mined_at is non-null is DONE.
MinedImpliesDone ==
    \A k \in DOMAIN intent :
        intent[k].to_tx_mined_at # NULL => intent[k].status = StatusDone

\* C6. GetCreatedIntents holds at most LIMIT rows, each CREATED with quorum
\* >= 1 and from_tx_mined_at later than the call time minus the expiration
\* window; the step that returns rows makes exactly the returned rows
\* PENDING and changes nothing else; rows that did not match, or that another
\* transaction holds, are neither returned nor changed.
Returned == {k \in Keys : handed'[k] # handed[k]}

FetchContract ==
    /\ [](\A s \in Solvers : pc[s] = "locked" =>
            /\ Cardinality(held[s]) <= QueryLimit
            /\ exp[s] <= now - ExpirationTime
            /\ \A k \in held[s] :
                  /\ k \in DOMAIN intent
                  /\ intent[k].status = StatusCreated
                  /\ intent[k].quorum >= 1
                  /\ intent[k].from_tx_mined_at > exp[s])
    /\ [][/\ \A s \in Solvers : pc[s] = "begun" /\ pc'[s] = "scanning" =>
                exp'[s] = now - ExpirationTime
          /\ \A s \in Solvers : pc[s] = "locked" /\ pc'[s] = "idle" =>
                /\ Returned \in {{}, held[s]}
                /\ intent' = [k \in DOMAIN intent |->
                                IF k \in Returned
                                THEN [intent[k] EXCEPT !.status = StatusPending]
                                ELSE intent[k]]
          /\ \A k \in Keys :
                k \in Returned <=>
                    /\ k \in DOMAIN intent
                    /\ intent[k].status = StatusCreated
                    /\ intent'[k].status = StatusPending]_vars

\* C6 witness: a call returned a row, now PENDING, and left behind a CREATED
\* row that is expired.
FetchLeftExpired ==
    \E k \in DOMAIN intent, x \in DOMAIN intent :
        /\ handed[k] = 1 /\ intent[k].status = StatusPending
        /\ handed[x] = 0 /\ intent[x].status = StatusCreated
        /\ intent[x].from_tx_mined_at <= now - ExpirationTime

\* C7. SetCreatedIntentStatus(quote_id) sets status CREATED, nulls to_tx,
\* to_tx_set_at and to_nonce, adds exactly 1 to retries and changes no other
\* column and no row of another quote; no other operation changes retries,
\* which starts at 0.
RetryResetFrame ==
    [][/\ \A q \in Quotes : SetCreatedIntentStatus(q) =>
             \A k \in DOMAIN intent :
                 intent'[k] =
                     IF QuoteOf(k) = q
                     THEN [intent[k] EXCEPT !.status = StatusCreated,
                                            !.to_tx = NULL,
                                            !.to_tx_set_at = NULL,
                                            !.to_nonce = NULL,
                                            !.retries = intent[k].retries + 1]
                     ELSE intent[k]
       /\ \A k \in DOMAIN intent' :
             IF k \in DOMAIN intent
             THEN \/ intent'[k].retries = intent[k].retries
                  \/ /\ intent'[k].retries = intent[k].retries + 1
                     /\ intent'[k].status = StatusCreated
                     /\ intent'[k].to_tx = NULL
                     /\ intent'[k].to_tx_set_at = NULL
                     /\ intent'[k].to_nonce = NULL
             ELSE intent'[k].retries = 0]_vars

\* C7 witness: a row that was DONE with a destination transaction has been
\* reset once.
RetryResetDone ==
    \E k \in DOMAIN intent :
        /\ intent[k].retries = 1
        /\ intent[k].status = StatusCreated
        /\ intent[k].to_tx = NULL
        /\ intent[k].to_tx_mined_at # NULL

\* C8. Happy path: after InsertIntent (once, CREATED, unexpired),
\* GetCreatedIntents returning the row, SetPendingIntentStatus(q, h, n) and
\* SetDoneIntentStatus(q, n) there is exactly one row for q; it is DONE with
\* sub_status COMPLETED, to_tx = h, to_nonce = n, to_tx_mined_at non-null and
\* quorum 1.
HappyPathEnds ==
    sched.step = "done" =>
        /\ RowsOf(QuoteOf(SchedKey)) = {SchedKey}
        /\ intent[SchedKey].status = StatusDone
        /\ intent[SchedKey].sub_status = Some(Completed)
        /\ intent[SchedKey].to_tx = sched.to_tx
        /\ intent[SchedKey].to_nonce = sched.nonce
        /\ sched.to_tx # NULL /\ sched.nonce # NULL
        /\ intent[SchedKey].to_tx_mined_at # NULL
        /\ intent[SchedKey].quorum = 1

\* C8 witness: the scheduler finished the path, the clock had advanced before
\* the confirmation, and a row of another quote is in the table.
HappyPathDone ==
    /\ sched.step = "done"
    /\ intent[SchedKey].to_tx_mined_at = Some(1)
    /\ Cardinality(DOMAIN intent) = 2

(***************************************************************************)
(* Properties of the EVM confirmation waiter.                              *)
(***************************************************************************)
\* The receipt of the watched hash exists and the block number the call saw
\* is at least receipt.blockNumber + WaitNBlocks.
ConfirmationsReached ==
    /\ Receipt(watched) # NULL
    /\ CurrentBlock(w) >= The(mined).blockNumber + WaitNBlocks
    /\ CurrentBlock(w) <= head

\* A step of the call that checks the confirmations of a receipt it got
\* (no RPC error) while the block number it sees is below the depth.
ChecksTooEarly ==
    /\ w' # w
    /\ w'.res.err = NULL
    /\ \/ /\ w.mode = WebSocketMode /\ w.pc = "receipt" /\ Receipt(watched) # NULL
          /\ w.hdr < The(mined).blockNumber + WaitNBlocks
       \/ /\ w.mode = HTTPPollingMode /\ w.pc = "confirm"
          /\ head < The(w.rcpt).blockNumber + WaitNBlocks

\* C9. WaitTransactionConfirmation (WebSocket and HTTP paths) returns Done
\* only when a receipt of the watched hash exists, is successful and the
\* current block is at least receipt.block + wait_n_blocks; it returns Failed
\* with no error only when the confirmations are reached and the receipt is
\* not successful; while the depth is not reached it keeps waiting.
ReturnsOnConfirmation ==
    /\ [](w.res.status = TxDone =>
            w.res.err = NULL /\ ConfirmationsReached /\ The(mined).successful)
    /\ []((w.res.status = TxFailed /\ w.res.err = NULL) =>
            ConfirmationsReached /\ ~The(mined).successful)
    /\ [][ChecksTooEarly => w'.pc = "loop" /\ w'.res = NoResult]_vars

\* C9 witness: the call returned Done at exactly the confirmation depth,
\* for a replacement it had submitted itself.
DoneAtDepth ==
    /\ w.res = Result(TxDone, NULL)
    /\ CurrentBlock(w) = The(mined).blockNumber + WaitNBlocks
    /\ watched = 1

\* C10. A 'receipt not found' answer never makes the call return: a step
\* of the receipt query that finds no receipt and meets no other RPC error
\* leaves the waiter in its loop with no status and no error, the same
\* hash watched, after any number of consecutive NotFound answers.
NotFoundKeepsWaiting ==
    /\ [](w.res.err # Some(Wrap("not found", "failed to get transaction receipt")))
    /\ [][(/\ w.pc = "receipt" /\ Receipt(watched) = NULL /\ w' # w
           /\ w'.res.err # Some(Wrap("rpc error", "failed to get transaction receipt"))
           /\ w'.res.err # Some(Wrap(ContextCanceled, "failed to get transaction receipt")))
          => (/\ w'.pc = "loop" /\ w'.res = NoResult /\ watched' = watched
              /\ w'.notFound = w.notFound + 1)]_vars

\* C10 witness: three NotFound answers in a row and the call still waits.
StillWaitingAfterNotFound ==
    /\ w.notFound = 3
    /\ w.pc = "loop"
    /\ w.res = NoResult

\* The errors for which errors.Is(err, context.Canceled) holds: the context's
\* error itself or an RPC error that wraps it.
ContextErrors ==
    {ContextCanceled} \cup
    {Wrap(ContextCanceled, m) : m \in {"failed to get transaction receipt",
                                       "failed to get current block number"}}

\* The call returned from its loop (not before it, from the entry or the
\* subscription) and not for a subscription error.
ReturnedFromLoop ==
    /\ w.pc = "returned"
    /\ w.res.status # TxNeedsRetry

\* C11. If the context is cancelled while the waiter is in its loop, the
\* call returns status Failed together with the context's cancellation
\* error (as such or wrapped), never Done or NeedsRetry.
CancelReturnsContextError ==
    (ctxDone /\ ReturnedFromLoop) =>
        (w.res.status = TxFailed /\ w.res.err # NULL /\ w.res.err \subseteq ContextErrors)

\* A step in which signAndSendTransaction submitted a transaction of the kind.
Submits(kind) ==
    /\ Len(sent') = Len(sent) + 1
    /\ sent'[Len(sent')].kind = kind

\* C12. When no receipt was seen for more than 30 s, the head advanced by
\* more than 2 blocks since the start and the replacement transaction is
\* submitted successfully, WaitTransactionConfirmation returns NeedsRetry.
ReplacedReturnsNeedsRetry ==
    [][Submits("replace") => (w'.pc = "returned" /\ w'.res.status = TxNeedsRetry)]_vars

\* C13. When the stuck-transaction handling finds the replacement
\* unprofitable and the self-send cancel transaction is submitted,
\* WaitTransactionConfirmation returns Failed with the error 'transaction
\* cancelled due to timeout'.
UnprofitableReturnsCancelled ==
    [][(w.pc = "cancel_unprofitable" /\ Submits("cancel")) =>
         w'.res = Result(TxFailed, Some("transaction cancelled due to timeout"))]_vars

\* C14. Whenever the profitability check of a stuck transaction fails, no
\* replacement transaction is submitted for it, whether the cancel
\* transaction succeeds or fails.
UnprofitableNeverReplaced ==
    [][w.pc = "cancel_unprofitable" => ~Submits("replace")]_vars

(***************************************************************************)
(* Properties of the Solana confirmation waiter.                           *)
(***************************************************************************)
\* C15. Each poll maps as follows: status present with an error => Failed;
\* present, no error, Finalized => Done; present otherwise => keeps polling;
\* absent => NeedsRetry if and only if current_slot - blockhash_slot > 160
\* and the blockhash is no longer valid, otherwise keeps polling; an RPC
\* error on a poll never ends the wait.
SolanaPollMapping ==
    [][/\ (sol.pc = "statuses" /\ sol' # sol) =>
            IF sol'.poll.kind = "error" THEN sol'.pc = "loop" /\ sol'.res = NoResult
            ELSE IF sol'.poll.kind = "absent" THEN sol'.pc = "blockhash" /\ sol'.res = NoResult
            ELSE IF sol'.poll.failed THEN sol'.res = Result(TxFailed, NULL)
            ELSE IF sol'.poll.confirmation = ConfirmationFinalized
              THEN sol'.res = Result(TxDone, NULL)
            ELSE sol'.pc = "loop" /\ sol'.res = NoResult
       /\ (sol.pc = "blockhash" /\ sol' # sol) =>
            IF sol'.poll.kind = "error" THEN sol'.pc = "loop" /\ sol'.res = NoResult
            ELSE IF sol'.poll.slot - sol.blockhashSlot > MaxValidSlots /\ ~sol'.poll.valid
              THEN sol'.res = Result(TxNeedsRetry, NULL)
            ELSE sol'.pc = "loop" /\ sol'.res = NoResult]_vars

(***************************************************************************)
(* Properties of the connection monitor.                                   *)
(***************************************************************************)
\* C16. Under any interleaving of Start calls at most one of them finds the
\* monitor not running and sets the flag, until a Stop clears it; a Start
\* that finds the flag set returns the already-running error and spawns no
\* goroutine.
OneStartSucceeds ==
    /\ [](mon.running <= 1)
    /\ [][\A c \in MonCallers :
            (monCalls[c].pc = "check" /\ mon.isMonitoring /\ monCalls'[c] # monCalls[c])
            => /\ monCalls'[c].pc = "idle"
               /\ monCalls'[c].err = Some("connection monitor is already running")
               /\ monLoops' = monLoops
               /\ mon'.running = mon.running]_vars

\* C16 witness: two concurrent Start calls, one rejected, one goroutine.
SecondStartRejected ==
    /\ mon.closes = 0
    /\ mon.calls = 2
    /\ monCalls["c1"].op = "Start" /\ monCalls["c2"].op = "Start"
    /\ \E c \in MonCallers : monCalls[c].err # NULL
    /\ Len(monLoops) = 1

\* C17. For every interleaving of Start and Stop the stop channel is closed
\* at most once and no Stop panics.
StopClosesOnce == mon.closes <= 1 /\ ~mon.panicked

\* The last client call of the goroutine's tick is the step's.
ClientCall(i) ==
    /\ i \in DOMAIN monLoops'
    /\ monLoops[i].pc \in {"check", "reconnect"}
    /\ monLoops'[i] # monLoops[i]

\* C18. In one tick: a successful CheckConnection ends the tick without a
\* Reconnect; after a failed one Reconnect is called at most
\* maxReconnectAttempts times and the first success ends the tick without
\* error; when the last attempt fails the tick ends with an error and the
\* goroutine is back at its select, where the next tick checks again.
TickContract ==
    /\ [](\A i \in DOMAIN monLoops : monLoops[i].reconnects <= maxReconnectAttempts)
    /\ [][\A i \in DOMAIN monLoops :
            /\ (ClientCall(i) /\ monLoops[i].pc = "check" /\ ~monLoops'[i].failed)
               => /\ monLoops'[i].pc = "select"
                  /\ monLoops'[i].reconnects = 0
                  /\ monLoops'[i].err = NULL
            /\ (ClientCall(i) /\ monLoops[i].pc = "check" /\ monLoops'[i].failed)
               => monLoops'[i].pc = "reconnect"
            /\ (ClientCall(i) /\ monLoops[i].pc = "reconnect")
               => monLoops'[i].reconnects = monLoops[i].reconnects + 1
            /\ (ClientCall(i) /\ monLoops[i].pc = "reconnect" /\ ~monLoops'[i].failed)
               => /\ monLoops'[i].pc = "select"
                  /\ monLoops'[i].err = NULL
            /\ (ClientCall(i) /\ monLoops[i].pc = "reconnect" /\ monLoops'[i].failed
                   /\ monLoops'[i].reconnects = maxReconnectAttempts)
               => /\ monLoops'[i].pc = "select"
                  /\ monLoops'[i].err # NULL
            /\ (monLoops[i].pc = "select" /\ monLoops'[i].ticks = monLoops[i].ticks + 1)
               => monLoops'[i].pc = "check"]_vars

\* C18 witness: a goroutine in its second tick checks again after the
\* first tick used up its attempts, and another tick ended at the first
\* successful Reconnect.
ChecksAgainAfterFailure ==
    \E i \in DOMAIN monLoops :
        /\ monLoops[i].pc = "select"
        /\ monLoops[i].reconnects = maxReconnectAttempts
        /\ monLoops[i].err = Some("failed to reconnect to chain")
        /\ mon.stopChan = "open"
        /\ ~mon.ctxDone

(***************************************************************************)
(* Properties of the EVM adapter and its event handler.                    *)
(***************************************************************************)
\* C19. Whatever goroutines call Close on a Subscription (UpdateClient,
\* Stop, reconnectSubscription), and however often, its event channel is
\* closed at most once: no channel receives a second close.
EventChanClosedOnce == \A c \in DOMAIN evChans : evChans[c] <= 1

\* C20. After Reconnect returns, with or without an error, the adapter's
\* client is not one that Reconnect closed, and the client of an existing
\* event handler is the adapter's.
ReconnectLeavesLiveClient ==
    thr["monitor"].pc = "returned"
    => /\ chain.client \cap chain.closed = {}
       /\ chain.eventHandler => eh.client = chain.client

\* C33. After an error on a subscription the handler makes at most
\* handlerReconnectAttempts subscription setup attempts back to back, that
\* is between the error and the first wait for the retry timeout and
\* between one wait and the next.
ReconnectAttemptsBounded == thr["events"].tries <= handlerReconnectAttempts

\* The connection monitor's goroutine moves from one position to another.
MonitorMoves(from, to) == thr["monitor"].pc = from /\ thr'["monitor"].pc = to

\* No subscription of the handler is live.
BothClosed ==
    \A which \in {"relay", "transfer"} :
        eh[which].Subscription # "subscribed" /\ eh[which].EventChan = NULL

\* C29. UpdateClient cancels the handler's context, then closes the two
\* subscriptions while the context is cancelled, then installs a context
\* that is not cancelled together with the new client, then, in polling
\* mode, stops the ticker and starts polling again and otherwise sets the
\* subscriptions up again.  When it returns the handler's client is the
\* adapter's new client, every live subscription was made by that client,
\* and every ticker but the one started last is stopped.
UpdateClientContract ==
    /\ [](/\ thr["monitor"].pc \in {"update_relay", "update_transfer", "update_client"}
             => eh.ctxDone
          /\ thr["monitor"].pc = "update_transfer" => eh.relay.Subscription # "subscribed"
          /\ thr["monitor"].pc = "update_client" => BothClosed
          /\ thr["monitor"].pc = "update_polling"
             => eh.client = chain.client /\ ~eh.ctxDone /\ BothClosed)
    /\ [][/\ thr["monitor"].pc = "update_cancel"
             => thr'["monitor"].pc \in {"update_cancel", "update_relay"}
          /\ thr["monitor"].pc = "update_relay"
             => thr'["monitor"].pc \in {"update_relay", "update_transfer"}
          /\ thr["monitor"].pc = "update_transfer"
             => thr'["monitor"].pc \in {"update_transfer", "update_client"}
          /\ MonitorMoves("update_client", "setup")
             => /\ eh.pollingTicker = NULL
                /\ ~eh'.ctxDone
                /\ eh'.client = chain.client
                /\ eh'.client # eh.client
          /\ MonitorMoves("update_client", "update_polling")
             => /\ eh.pollingTicker # NULL
                /\ ~eh'.ctxDone
                /\ eh'.client = chain.client
                /\ eh'.client # eh.client
          /\ thr["monitor"].pc = "update_client"
             => thr'["monitor"].pc \in {"update_client", "setup", "update_polling"}
          /\ MonitorMoves("update_polling", "setup_done")
             => /\ eh'.tickers[The(eh.pollingTicker)] = "stopped"
                /\ eh'.pollingTicker # eh.pollingTicker
                /\ eh'.pollers = eh.pollers + 1
          /\ MonitorMoves("setup_done", "returned")
             => /\ eh.client = chain.client
                /\ chain.client = Some(chain.dialed)
                /\ \A which \in {"relay", "transfer"} :
                      eh[which].Subscription = "subscribed"
                      => eh[which].client = chain.client
                /\ \A k \in DOMAIN eh.tickers :
                      eh.tickers[k] = "running" => eh.pollingTicker = Some(k)]_vars

\* C29 witness: Reconnect returned from an UpdateClient that restarted the
\* polling of a handler in polling mode with the new client.
PollingRestartedOnNewClient ==
    /\ thr["monitor"].pc = "returned"
    /\ thr["monitor"].err = NULL
    /\ chain.eventHandler
    /\ eh.pollingTicker = Some(2)
    /\ eh.tickers = <<"stopped", "running">>
    /\ eh.client = Some(chain.dialed)
    /\ chain.dialed > 1

(***************************************************************************)
(* Properties of the chain registry.                                       *)
(***************************************************************************)
\* The call of caller c returns in this step.
RegReturns(c, op, at) ==
    /\ regCalls[c].op = op
    /\ regCalls[c].pc = at
    /\ regCalls'[c].pc = "idle"

\* C21. Under any interleaving of Add, Get and Remove: the map holds for an
\* id only a chain the factory built for that id, and Get returns the
\* entry of its id or nothing; Remove deletes the entry of its id, changes
\* nothing when there is none and returns no error; an Add whose factory
\* call fails leaves the map as it was; an Add stores its chain in one
\* step, so an entry disappears only through a Remove of its id.
RegistryContract ==
    /\ [](\A id \in ChainIDs : \A n \in registry.chains[id] :
             n \in DOMAIN objs /\ objs[n].id = id)
    /\ [][\A c \in RegCallers :
            LET id == regCalls[c].id IN
            /\ RegReturns(c, "Get", "map")
               => /\ regCalls'[c].res = registry.chains[id]
                  /\ registry'.chains = registry.chains
            /\ RegReturns(c, "Remove", "map")
               => /\ registry'.chains = [registry.chains EXCEPT ![id] = NULL]
                  /\ registry.chains[id] = NULL => registry'.chains = registry.chains
                  /\ regCalls'[c].err = NULL
            /\ RegReturns(c, "Add", "create")
               => /\ regCalls'[c].err # NULL
                  /\ registry'.chains = registry.chains
            /\ RegReturns(c, "Add", "store")
               => /\ registry'.chains = [registry.chains EXCEPT ![id] = regCalls[c].chain]
                  /\ regCalls'[c].err = NULL]_vars
    /\ [][\A id \in ChainIDs :
            (registry.chains[id] # NULL /\ registry'.chains[id] = NULL)
            => \E c \in RegCallers : RegReturns(c, "Remove", "map") /\ regCalls[c].id = id]_vars

\* C21 witness: a second Add replaced the chain of id 1 and a Get returned
\* the replacement.
GetSeesReplacement ==
    /\ Len(objs) = 2
    /\ objs[1].id = 1 /\ objs[2].id = 1
    /\ registry.chains[1] = Some(2)
    /\ \E c \in RegCallers : regCalls[c].op = "Get" /\ regCalls[c].res = Some(2)

\* C22. A chain the registry does not refer to has no listeners running:
\* they were halted before Remove or a replacing Add took effect.
ListenersHaltedBeforeRemoval ==
    \A n \in DOMAIN objs : objs[n].listening => n \in Registered

(***************************************************************************)
(* Properties of the event handler's loops.                                *)
(***************************************************************************)
\* C23. In polling mode the events put on the event channel are in
\* ascending (block_number, log_index) order, across the two log streams
\* and across ticks.
EventsAscending ==
    \A i, j \in DOMAIN eventChan.received :
        i < j => LogKey(eventChan.received[i]) < LogKey(eventChan.received[j])

\* C24. After the handler's context is cancelled the polling loop
\* terminates, also when it is sending an event to a consumer that has
\* stalled.
PollingStopsAfterCancel == poll.ctxDone ~> poll.pc = "exited"

(***************************************************************************)
(* Properties of GetPendingTransactionsByChain.                            *)
(***************************************************************************)
\* The rows of chain c that are PENDING and whose to_tx_set_at is later
\* than now minus the expiration window.
PendingOn(c) ==
    {k \in DOMAIN intent :
        /\ ToChainID(k) = c
        /\ intent[k].status = StatusPending
        /\ \E t \in intent[k].to_tx_set_at : t > now - ExpirationTime}

\* The transaction t is the one of row k.
TransactionOf(t, k) ==
    /\ t.QuoteID = k[1]
    /\ intent[k].to_tx = Some(t.Hash)
    /\ intent[k].to_nonce = Some(t.Nonce)

\* C25. A call of GetPendingTransactionsByChain succeeds and returns a list
\* for exactly the chains that have a PENDING row inside the expiration
\* window; the list of a chain holds exactly those rows, in ascending
\* to_nonce order.
PendingByChainContract ==
    [][pendingTxs'.calls # pendingTxs.calls =>
         LET res == pendingTxs'.byChain IN
         /\ pendingTxs'.err = NULL
         /\ DOMAIN res = {c \in {1, 2} : PendingOn(c) # {}}
         /\ \A c \in DOMAIN res :
               /\ Len(res[c]) = Cardinality(PendingOn(c))
               /\ \A k \in PendingOn(c) : \E i \in DOMAIN res[c] : TransactionOf(res[c][i], k)
               /\ \A i \in DOMAIN res[c] : \E k \in PendingOn(c) : TransactionOf(res[c][i], k)
               /\ \A i, j \in DOMAIN res[c] : i < j => res[c][i].Nonce <= res[c][j].Nonce]_vars

\* C25 witness: a call returned two transactions of chain 1 with nonces 7
\* and 8 in that order.
PendingSortedPair ==
    /\ pendingTxs.calls = 1
    /\ 1 \in DOMAIN pendingTxs.byChain
    /\ Len(pendingTxs.byChain[1]) = 2
    /\ pendingTxs.byChain[1][1].Nonce = 7
    /\ pendingTxs.byChain[1][2].Nonce = 8

(***************************************************************************)
(* Properties of the EVM waiter's stuck-transaction handling.              *)
(***************************************************************************)
\* The waiter passes from its loop's check to the stuck-transaction
\* handling, or to the receipt query.
ChecksStuck(to) == w.pc \in {"loop", "blocknumber"} /\ w'.pc = to

\* C26. The waiter enters the stuck-transaction handling only from a check
\* at which more than waitTimeout seconds have passed since startTime and
\* the current block is above startBlock + 2; a check at which either
\* fails goes on to the receipt query; a replacement sets startTime to the
\* time and startBlock to the block of that check.
StuckCheckContract ==
    [][/\ ChecksStuck("replace")
          => /\ clock - w.startTime > waitTimeout
             /\ CurrentBlock(w') > w.startBlock + 2
       /\ ChecksStuck("receipt")
          => \/ clock - w.startTime <= waitTimeout
             \/ CurrentBlock(w') <= w.startBlock + 2
       /\ (w.pc = "loop" /\ w'.pc = "blocknumber") => clock - w.startTime > waitTimeout
       /\ Submits("replace")
          => /\ w'.startTime = clock
             /\ w'.startBlock = CurrentBlock(w)
             /\ w'.startBlock > w.startBlock + 2]_vars

\* C26 witness: a replacement was handled, both start values are those of
\* its check, and the waiter is back in its loop.
StuckHandledAndReset ==
    /\ sent # <<>>
    /\ sent[Len(sent)].kind = "replace"
    /\ w.pc = "loop"
    /\ w.startTime = clock
    /\ w.startTime > waitTimeout
    /\ w.startBlock > 2

\* C27. When the lookup of the stuck-transaction handling finds the watched
\* transaction mined, nothing is submitted, the watched hash stays, and the
\* waiter goes on to the receipt query without failing or panicking.
NotPendingDoesNothing ==
    [][(/\ w.pc = "replace"
        /\ ~ctxDone
        /\ mined # NULL
        /\ The(mined).hash = watched
        /\ w'.pc \notin {"replace", "cancel"})
       => /\ w'.pc = "receipt"
          /\ UNCHANGED <<sent, watched>>]_vars

(***************************************************************************)
(* Properties of the transactions built by the stuck-transaction handling. *)
(***************************************************************************)
\* The stuck-transaction handling submits a transaction in this step.
HandlingSubmits(kind) ==
    /\ Len(rbf'.submitted) = Len(rbf.submitted) + 1
    /\ rbf'.submitted[Len(rbf'.submitted)].kind = kind

\* C28. Every transaction the stuck-transaction handling submits carries
\* the nonce of the original.  A replacement has the nonce, recipient,
\* value, data and gas limit of the transaction it replaces and, as gas
\* price (legacy) or GasFeeCap (EIP-1559, with the GasTipCap kept), the
\* larger of the node's current price and floor(old price * 110 / 100).  A
\* cancel is a zero-value self-send without data, with gas 21000 and price
\* floor(old price * 150 / 100).
ReplacementContract ==
    [][LET new == rbf'.submitted[Len(rbf'.submitted)].tx
           old == The(rbf.pending)
           floor110 == (old.gasPrice * 110) \div 100
       IN  /\ HandlingSubmits("replace")
              => /\ new.nonce = The(rbf.original)
                 /\ new.nonce = old.nonce
                 /\ new.to = old.to
                 /\ new.value = old.value
                 /\ new.data = old.data
                 /\ new.gas = old.gas
                 /\ new.type = rbf.txType
                 /\ new.gasPrice >= rbf'.network
                 /\ new.gasPrice >= floor110
                 /\ new.gasPrice \in {rbf'.network, floor110}
                 /\ rbf.txType = TxTypeEIP1559 => new.gasTipCap = old.gasTipCap
           /\ HandlingSubmits("cancel")
              => /\ new.nonce = The(rbf.original)
                 /\ new.from = Some(SignerAddress)
                 /\ new.to = SignerAddress
                 /\ new.value = 0
                 /\ new.data = <<>>
                 /\ new.gas = 21000
                 /\ new.gasPrice = (old.gasPrice * 150) \div 100
                 /\ rbf.txType = TxTypeEIP1559 => new.gasTipCap = old.gasTipCap]_vars

\* C28 witness: a replacement priced by the node's price, above 110% of
\* the old one, was cancelled at a price that the division rounded down.
ReplacedThenCancelled ==
    /\ Len(rbf.submitted) = 2
    /\ rbf.submitted[1].kind = "replace"
    /\ rbf.submitted[1].tx.gasPrice > (rbf.submitted[1].of.gasPrice * 110) \div 100
    /\ rbf.submitted[1].of.gasPrice > 0
    /\ rbf.submitted[2].kind = "cancel"
    /\ (rbf.submitted[2].of.gasPrice * 150) % 100 # 0
    /\ rbf.submitted[2].tx.gasPrice > 0

(***************************************************************************)
(* Properties of the locks.                                                *)
(***************************************************************************)
\* C30. No caller of the Chain facade holds the read lock of a capability
\* while its call into that capability is in progress: the lock is
\* released before the estimator, sender, watcher or handler is invoked.
NoLockAcrossBorrowedCall ==
    \A c \in FacadeCallers :
        facade.calls[c].pc = "in_call"
        => c \notin facade.rlocks[FacadeMethods[facade.calls[c].method]]

(***************************************************************************)
(* Properties of the polling window.                                       *)
(***************************************************************************)
\* C31. A tick with lastProcessedBlock = last > 0 and the head above last
\* queries the window from last + 1 to the smaller of last + maxBlockRange
\* and the head: never more than maxBlockRange blocks, never past the head.
\* With the head at or below last nothing is queried and last stays.
PollWindowClamped ==
    [][LET last == poll.lastProcessedBlock
           head_ == pollChain.head
       IN  /\ (poll.pc = "poll" /\ poll'.pc = "range")
              => /\ last > 0
                 /\ head_ > last
                 /\ poll'.fromBlock = last + 1
                 /\ poll'.toBlock <= head_
                 /\ poll'.toBlock <= last + maxBlockRange
                 /\ poll'.toBlock \in {head_, last + maxBlockRange}
                 /\ poll'.toBlock - poll'.fromBlock + 1 <= maxBlockRange
                 /\ poll'.lastProcessedBlock = last
           /\ (poll.pc = "poll" /\ last > 0 /\ head_ <= last)
              => /\ poll'.pc \in {"poll", "select"}
                 /\ poll'.lastProcessedBlock = last
           /\ poll'.pc = "range" => poll.pc \in {"poll", "range"}]_vars

\* C31 witness: the window of a tick was cut at maxBlockRange blocks, below
\* the head.
WindowCutBelowHead ==
    /\ poll.pc = "range"
    /\ poll.lastProcessedBlock > 0
    /\ poll.toBlock = poll.lastProcessedBlock + maxBlockRange
    /\ poll.toBlock < pollChain.head

DispatchedWithDecodedName ==
    poll.eventType # "" => poll.eventType \in EventNames

\* Reconnect holds clientMutex and waits for eventHandlerMutex.
ReconnectWaitsForHandlerMutex ==
    thr["monitor"].pc = "handler" /\ chain.eventHandlerMutex = Some("main")

\* InitHTTPPolling holds eventHandlerMutex and waits for clientMutex.
InitWaitsForClientMutex ==
    thr["main"].pc = "init_client" /\ ClientMutexHeld

\* C35: no state is reached in which Reconnect, holding the client lock,
\* waits for the event-handler lock while InitHTTPPolling (or
\* InitWSSubscription, which takes the locks in the same order), holding the
\* event-handler lock, waits for the client lock.
NoLockOrderDeadlock ==
    ~(ReconnectWaitsForHandlerMutex /\ InitWaitsForClientMutex)

\* Reconnect has returned after UpdateClient set up both subscriptions of a
\* handler in WebSocket mode, and nothing has cancelled the handler since.
ResubscribedAfterUpdateClient ==
    /\ thr["monitor"].pc = "returned"
    /\ thr["monitor"].err = NULL
    /\ thr["main"].pc = "idle"
    /\ chain.eventHandler
    /\ eh.pollingTicker = NULL
    /\ ~eh.ctxDone
    /\ eh.relay.Subscription = "subscribed"
    /\ eh.transfer.Subscription = "subscribed"

\* C36: in WebSocket mode, once UpdateClient has set up the two
\* subscriptions again, handleEvents is running for the handler, so the logs
\* of the new subscriptions have a consumer.
ConsumeLoopSurvivesUpdateClient ==
    ResubscribedAfterUpdateClient => thr["events"].pc # "exited"

\* C37: at most one polling goroutine waits on the handler's context and
\* ticker, also after UpdateClient: a goroutine started before the swap
\* never comes back to the select beside the one UpdateClient started.
OnePollingGoroutine ==
    ~eh.ctxDone => eh.pollers <= 1

\* The logs the event channel has carried.
EmittedLogs == {eventChan.received[i] : i \in DOMAIN eventChan.received}

\* C38: when pollEvents advances lastProcessedBlock past a window, every
\* log of the chain in the blocks of that window has been sent on the event
\* channel.
NoLogLostByPolling ==
    [][(poll.lastProcessedBlock # 0 /\ poll'.lastProcessedBlock # poll.lastProcessedBlock)
         => \A l \in pollChain.logs :
               (l.block >= poll.fromBlock /\ l.block <= poll.toBlock) => l \in EmittedLogs]_vars

\* A status-setting operation on quote q takes a step.
StatusSetterStep(q) ==
    \/ SetCreatedIntentStatus(q)
    \/ \E h \in TxHashes, n \in Nonces : SetPendingIntentStatus(q, h, n)
    \/ \E n \in Nonces : SetDoneIntentStatus(q, n)
    \/ SetFailedIntentStatus(q, Expired)

\* The rows a step changes.
ChangedRows == {k \in DOMAIN intent : intent'[k] # intent[k]}

\* C39: a status-setting operation changes the row of one
\* (quote_id, block_hash) pair at most, also when the table holds several
\* rows of the quote, and no row when the quote has none.
SetterChangesOneRow ==
    [][\A q \in Quotes :
          StatusSetterStep(q) =>
             /\ Cardinality(ChangedRows) <= 1
             /\ RowsOf(q) = {} => ChangedRows = {}]_vars

\* No call of Start or Stop is in progress.
NoMonitorCall == \A c \in MonCallers : monCalls[c].pc = "idle"

\* A monitorConnection goroutine has not returned.
MonitorGoroutineAlive == \E i \in DOMAIN monLoops : monLoops[i].pc # "exited"

\* C40: between the calls of Start and Stop, isMonitoring is true exactly
\* when a monitoring goroutine is alive: while the flag is set a goroutine
\* runs and the stop channel it selects on is open, so it goes on with its
\* health checks; while the flag is clear no goroutine is left except one
\* that the closed stop channel is about to end.
MonitoringFlagMatchesGoroutine ==
    NoMonitorCall =>
       /\ mon.isMonitoring => (MonitorGoroutineAlive /\ mon.stopChan = "open")
       /\ ~mon.isMonitoring => (~MonitorGoroutineAlive \/ mon.stopChan = "closed")

====================================================================
